---- MODULE Spec2Model ----
(***************************************************************************)
(* FinanceHub: the FRED backfill and merge pipeline                        *)
(* (attached_assets/backfill_fred_merge_1754721621497.py) and the scripts  *)
(* around it.  Each component of the pipeline is a small state machine of  *)
(* its own: its inputs are drawn in its initial predicate, its actions     *)
(* are the statements of the code, and the variables of the other          *)
(* components stay idle.                                                   *)
(*                                                                         *)
(* Data representation                                                     *)
(*   string     a tuple of one-character strings, <<"%">>, <<>> is ""      *)
(*   NA         the absent string (pandas NaN / pd.NA in an object column) *)
(*   number     a pair <<n, d>>, the rational n/d in lowest terms, d > 0;  *)
(*              <<1, 0>> and <<-1, 0>> are +inf and -inf                   *)
(*   NaN        the absent number (NaN / pd.NA in the value column)        *)
(*   date       the integer YYYYMMDD; NaT == 0 is the absent date          *)
(***************************************************************************)
EXTENDS Integers, Sequences, FiniteSets, TLC

VARIABLES
    \* ---- merge stage of main() (lines 421-427 and 540-582)
    today,        \* the run date, pd.Timestamp.today()
    in_file,      \* rows of the CSV the run loads as `existing`
    rows,         \* the rows collected by the metric loop
    existing,     \* DataFrame `existing`
    fetched,      \* DataFrame `fetched`
    combined,     \* DataFrame `combined`
    out_file,     \* rows of the CSV written to args.out_full
    mpc,          \* position of the merge stage
    run_no,       \* 1: first run, 2: the rerun over its own output
    result1,      \* `combined` as the first run left it
    \* ---- frequency normalization of one directly fetched series (505-536)
    ser_in,       \* the frame fred_fetch_series returned
    ser_info,     \* info["frequency"] of the series
    ser_df,       \* DataFrame `ser_df`
    frequency,    \* `frequency`, from the series info
    ser_rows,     \* the rows appended for the series
    npc,          \* position of the normalizer
    \* ---- a derived metric of SPECIAL_COMPUTATIONS (lines 479-503)
    base_df,      \* the frame fetched for spec["base_id"]
    kind,         \* spec["type"]
    pad_fill,     \* whether pct_change of the installed pandas pads first
    trans,        \* the frame compute_transform returned
    trans_rows,   \* the rows appended for the metric
    tpc,          \* position of the derived-metric branch
    \* ---- the spread metric "Yield Curve (10yr-2yr)" (lines 434-463)
    a_df,         \* frame `a`, the observations of spec["id_a"]
    b_df,         \* frame `b`, the observations of spec["id_b"]
    spread_df,    \* frame `df`
    spread_rows,  \* the rows appended for the metric
    spc,          \* position of the spread branch
    \* ---- the resolver: search and choose (lines 279-296, 465-476)
    seasonality,  \* args.seasonality
    found,        \* the "seriess" list of the search response
    items,        \* fred_search_series' result
    best,         \* choose_best_candidate's result
    fred_id,      \* the resolved series id
    rpc,          \* position of the resolver
    \* ---- one run of a script: the metric loop and the writes
    program,      \* "backfill" or "fred_data_script"
    add_notes,    \* args.add_notes
    todo,         \* the metrics the loop has still to process
    processed,    \* metrics whose loop iteration has completed
    contributed,  \* metrics that appended rows (backfill: `rows`)
    failures,     \* API calls that failed
    last_iter,    \* the last loop iteration: metric, API answers, result
    written,      \* the files written
    exit_status,  \* the process's exit status, -1 while it runs
    upc,          \* position of the run
    \* ---- one import or populate run against the store
    script,       \* the script that runs
    unique_key,   \* the table has a unique (series_id, period_date)
    table0,       \* the table before the run
    committed,    \* the table as committed
    tx,           \* the table as the run's open transaction sees it
    csv,          \* the rows the run imports
    next_row,     \* the index of the next row of csv
    store_pc,     \* position of the run
    run_count,    \* the number of the run, from 1
    \* ---- parsing of one observations response
    raw_obs,      \* the "observations" list of the response
    obs_df,       \* the frame fred_fetch_series returns
    obs_rows,     \* the rows appended for a natively monthly series
    obs_values,   \* the list fetch_fred_series returns
    fpc,          \* position of the parse
    \* ---- the coverage report of a merge
    cov,          \* the rows of the coverage file
    \* ---- two concurrent import runs
    shared,       \* the table as committed, which both runs read
    writers,      \* per run: its file, position, look-up result, open inserts
    \* ---- one call of calculate_yoy_change (script 2)
    raw_values,   \* the list of values passed
    yoy_change,   \* the number returned
    ypc           \* position of the call

mergeVars == <<today, in_file, rows, existing, fetched, combined, out_file,
               mpc, run_no, result1, cov>>

normVars == <<ser_in, ser_info, ser_df, frequency, ser_rows, npc>>

transVars == <<base_df, kind, pad_fill, trans, trans_rows, tpc>>

spreadVars == <<a_df, b_df, spread_df, spread_rows, spc>>

resolveVars == <<seasonality, found, items, best, fred_id, rpc>>

runVars == <<program, add_notes, todo, processed, contributed, failures, last_iter, written, exit_status, upc>>

storeVars == <<script, unique_key, table0, committed, tx, csv, next_row, store_pc,
               run_count>>

fetchVars == <<raw_obs, obs_df, obs_rows, obs_values, fpc>>

raceVars == <<shared, writers>>

changeVars == <<raw_values, yoy_change, ypc>>

vars == <<mergeVars, normVars, transVars, spreadVars, resolveVars, runVars, storeVars, fetchVars,
          raceVars, changeVars>>

nonMergeVars == <<normVars, transVars, spreadVars, resolveVars, runVars, storeVars, fetchVars, raceVars,
        changeVars>>

nonNormVars == <<mergeVars, transVars, spreadVars, resolveVars, runVars, storeVars, fetchVars, raceVars,
        changeVars>>

nonTransVars == <<mergeVars, normVars, spreadVars, resolveVars, runVars, storeVars, fetchVars, raceVars,
        changeVars>>

nonSpreadVars == <<mergeVars, normVars, transVars, resolveVars, runVars, storeVars, fetchVars, raceVars,
        changeVars>>

nonResolveVars == <<mergeVars, normVars, transVars, spreadVars, runVars, storeVars, fetchVars, raceVars,
        changeVars>>

nonStoreVars == <<mergeVars, normVars, transVars, spreadVars, resolveVars, runVars, fetchVars, raceVars,
        changeVars>>

nonFetchVars == <<mergeVars, normVars, transVars, spreadVars, resolveVars, runVars, storeVars, raceVars,
        changeVars>>

nonRaceVars == <<mergeVars, normVars, transVars, spreadVars, resolveVars, runVars, storeVars,
                 fetchVars,
        changeVars>>

nonChangeVars == <<mergeVars, normVars, transVars, spreadVars, resolveVars, runVars, storeVars,
                   fetchVars, raceVars>>

nonRunVars == <<mergeVars, normVars, transVars, spreadVars, resolveVars, storeVars, fetchVars, raceVars,
        changeVars>>

----------------------------------------------------------------------------
(* Strings                                                                 *)

NA == <<"<NA>">>
NaN == <<>>
NaT == 0

\* The characters the model uses, in code-point order.
Ascii == <<" ", "%", "-", "0", "1", "2", "3", "4", "5", "6", "7", "8", "9",
           "A", "B", "C", "D", "E", "F", "G", "H", "I", "J", "K", "L", "M",
           "N", "O", "P", "Q", "R", "S", "T", "U", "V", "W", "X", "Y", "Z",
           "a", "b", "c", "d", "e", "f", "g", "h", "i", "j", "k", "l", "m",
           "n", "o", "p", "q", "r", "s", "t", "u", "v", "w", "x", "y", "z">>

CharCode(c) == CHOOSE i \in DOMAIN Ascii : Ascii[i] = c

\* Python's str < str: lexicographic by code point, a proper prefix first.
RECURSIVE StrLess(_, _)
StrLess(s, t) ==
    IF t = <<>> THEN FALSE
    ELSE IF s = <<>> THEN TRUE
    ELSE IF Head(s) = Head(t) THEN StrLess(Tail(s), Tail(t))
    ELSE CharCode(Head(s)) < CharCode(Head(t))

RECURSIVE LStrip(_)
LStrip(s) == IF s # <<>> /\ Head(s) = " " THEN LStrip(Tail(s)) ELSE s

RECURSIVE RStrip(_)
RStrip(s) ==
    IF s # <<>> /\ s[Len(s)] = " " THEN RStrip(SubSeq(s, 1, Len(s) - 1)) ELSE s

\* str.strip()
Strip(s) == RStrip(LStrip(s))

Range(s) == {s[i] : i \in DOMAIN s}

\* All sequences over S of length at most n.
SeqsUpTo(S, n) == UNION {[1..k -> S] : k \in 0..n}

----------------------------------------------------------------------------
(* Calendar                                                                *)

Year(d) == d \div 10000
Month(d) == (d \div 100) % 100
Day(d) == d % 100
MkDate(y, m, d) == y * 10000 + m * 100 + d

IsLeap(y) == (y % 4 = 0 /\ y % 100 # 0) \/ y % 400 = 0

DaysInMonth(y, m) ==
    IF m = 2 THEN (IF IsLeap(y) THEN 29 ELSE 28)
    ELSE IF m \in {4, 6, 9, 11} THEN 30 ELSE 31

\* dt.to_period("M").to_timestamp("M"): the last calendar day of dt's month.
\* month_end(dt) of the source computes the same date.
month_end(d) == MkDate(Year(d), Month(d), DaysInMonth(Year(d), Month(d)))

----------------------------------------------------------------------------
(* Merge stage: constants of the source and the row universe               *)

REQUIRED_COLS == {"metric_name", "series_id", "type", "category", "unit",
                  "frequency", "value", "period_date"}

STRING_COLS == {"unit", "frequency", "series_id", "metric_name", "type",
                "category"}

CoreCPI == <<"C", "o", "r", "e", " ", "C", "P", "I">>
CorePPI == <<"C", "o", "r", "e", " ", "P", "P", "I">>
CPILFESL == <<"C", "P", "I", "L", "F", "E", "S", "L">>
PPIFES == <<"P", "P", "I", "F", "E", "S">>
lagging == <<"l", "a", "g", "g", "i", "n", "g">>
Inflation == <<"I", "n", "f", "l", "a", "t", "i", "o", "n">>
Monthly == <<"M", "o", "n", "t", "h", "l", "y">>
Pct == <<"%">>
PctPadded == <<" ", "%">>

\* DEFAULT_TYPE_MAP.get(m, "") and DEFAULT_CATEGORY_MAP.get(m, ""), on the
\* metrics of the model: "Core CPI" is in both maps, "Core PPI" only in the
\* category map.
fill_type(m) == IF m = CoreCPI THEN lagging ELSE <<>>
fill_cat(m) == IF m \in {CoreCPI, CorePPI} THEN Inflation ELSE <<>>

Num(n) == <<n, 1>>

Row(m, sid, ty, cat, u, fq, v, d) ==
    [metric_name |-> m, series_id |-> sid, type |-> ty, category |-> cat,
     unit |-> u, frequency |-> fq, value |-> v, period_date |-> d]

\* Bounds of the merge stage.
MaxExisting == 2
MaxFetched == 2

\* The run dates of the model; the lower bound of the window is 2024-02-29.
Todays == {20340215}

\* Rows an input CSV can hold.  An empty cell is <<>>; the value and
\* period_date cells are shown as lines 560-561 coerce them.
ExistingUniverse ==
    { Row(CoreCPI, CPILFESL, lagging, Inflation, Pct, Monthly, Num(1), 20240331),
      Row(CoreCPI, CPILFESL, lagging, Inflation, Pct, Monthly, Num(2), 20240331),
      Row(CoreCPI, CPILFESL, <<>>, Inflation, PctPadded, Monthly, Num(1), 20231231),
      Row(CorePPI, PPIFES, <<>>, Inflation, <<>>, Monthly, Num(1), 20240331),
      Row(CoreCPI, CPILFESL, lagging, Inflation, Pct, Monthly, NaN, NaT),
      Row(<<>>, CPILFESL, lagging, Inflation, Pct, Monthly, Num(1), 20240331) }

\* Rows the metric loop can collect (lines 526-536): the type and category
\* come from the default maps, the unit from the series info ("" when the
\* info has none).
FetchedUniverse ==
    { Row(CoreCPI, CPILFESL, fill_type(CoreCPI), fill_cat(CoreCPI), Pct, Monthly, Num(2), 20240331),
      Row(CoreCPI, CPILFESL, fill_type(CoreCPI), fill_cat(CoreCPI), Pct, Monthly, Num(1), 20240131),
      Row(CorePPI, PPIFES, fill_type(CorePPI), fill_cat(CorePPI), <<>>, Monthly, Num(1), 20240331),
      Row(CoreCPI, CPILFESL, fill_type(CoreCPI), fill_cat(CoreCPI), Pct, Monthly, NaN, 20240229) }

----------------------------------------------------------------------------
(* Merge stage: the operations of lines 421-427 and 540-582                *)

\* pd.read_csv: an empty cell of a string column is read as NaN.
ReadCsvCell(c) == IF c = <<>> THEN NA ELSE c

ReadCsvRow(r) == [c \in DOMAIN r |-> IF c \in STRING_COLS THEN ReadCsvCell(r[c]) ELSE r[c]]

read_csv(file) == [i \in DOMAIN file |-> ReadCsvRow(file[i])]

\* DataFrame.to_csv: NaN and "" are both written as an empty cell.
ToCsvCell(s) == IF s = NA THEN <<>> ELSE s

ToCsvRow(r) == [c \in DOMAIN r |-> IF c \in STRING_COLS THEN ToCsvCell(r[c]) ELSE r[c]]

to_csv(df) == [i \in DOMAIN df |-> ToCsvRow(df[i])]

\* min_allowed (line 546): the month end of the month ten years before t.
min_allowed(t) == month_end(MkDate(Year(t) - 10, Month(t), 1))

\* fetched[fetched["period_date"] >= min_allowed] (line 548); NaT >= x is False.
InWindow(r, t) == r.period_date # NaT /\ r.period_date >= min_allowed(t)

\* A slip: the window is not applied.
ConstrainFetched_skipped(df, t) == df

ConstrainFetched(df, t) == SelectSeq(df, LAMBDA r : InWindow(r, t))

\* fetched["type"] / ["category"] = fetched["metric_name"].map(...) (556-557)
FillTypeCatRow(r) ==
    [r EXCEPT !.type = fill_type(r.metric_name), !.category = fill_cat(r.metric_name)]

FillTypeCat(df) == [i \in DOMAIN df |-> FillTypeCatRow(df[i])]

SameOn(r1, r2, subset) == \A c \in subset : r1[c] = r2[c]

\* DataFrame.drop_duplicates(subset, keep="last"): a row stays unless a later
\* row agrees with it on every column of subset (absent equals absent).
RECURSIVE DropDuplicates(_, _)
DropDuplicates(df, subset) ==
    IF df = <<>> THEN <<>>
    ELSE IF \E i \in DOMAIN Tail(df) : SameOn(Head(df), Tail(df)[i], subset)
         THEN DropDuplicates(Tail(df), subset)
         ELSE <<Head(df)>> \o DropDuplicates(Tail(df), subset)

\* A slip: duplicates judged on the store key alone.
Deduplicate_on_key(df) == DropDuplicates(df, {"series_id", "period_date"})

\* combined.drop_duplicates(subset=REQUIRED_COLS, keep="last") (line 565)
Deduplicate(df) == DropDuplicates(df, REQUIRED_COLS)

\* A slip: the fill without the strip.
FillBlank_no_strip(s) == IF s = NA THEN <<>> ELSE s

\* combined[col].fillna("").astype(str).str.strip() (lines 568-569)
FillBlank(s) == Strip(IF s = NA THEN <<>> ELSE s)

FillBlanksRow(r) == [c \in DOMAIN r |-> IF c \in STRING_COLS THEN FillBlank(r[c]) ELSE r[c]]

FillBlanks(df) == [i \in DOMAIN df |-> FillBlanksRow(df[i])]

\* Order of two period_date values under na_position="last".
DateLess(d1, d2) == d1 # NaT /\ (d2 = NaT \/ d1 < d2)

\* Order of two string keys; an absent key sorts last.
KeyStrLess(s, t) == s # NA /\ (t = NA \/ StrLess(s, t))

\* r1 strictly before r2 by ["metric_name","series_id","period_date"].
SortKeyLess(r1, r2) ==
    \/ KeyStrLess(r1.metric_name, r2.metric_name)
    \/ /\ r1.metric_name = r2.metric_name
       /\ \/ KeyStrLess(r1.series_id, r2.series_id)
          \/ /\ r1.series_id = r2.series_id
             /\ DateLess(r1.period_date, r2.period_date)

\* A slip: r goes before the rows that tie with it.
InsertRow_before_ties(sorted, r) ==
    LET k == Cardinality({i \in DOMAIN sorted : SortKeyLess(sorted[i], r)})
    IN  SubSeq(sorted, 1, k) \o <<r>> \o SubSeq(sorted, k + 1, Len(sorted))

\* r goes after every row of the sorted frame that is not greater than it.
InsertRow(sorted, r) ==
    LET k == Cardinality({i \in DOMAIN sorted : ~SortKeyLess(r, sorted[i])})
    IN  SubSeq(sorted, 1, k) \o <<r>> \o SubSeq(sorted, k + 1, Len(sorted))

\* DataFrame.sort_values(by, na_position="last") on several keys: stable.
RECURSIVE sort_values(_)
sort_values(df) ==
    IF df = <<>> THEN <<>>
    ELSE InsertRow(sort_values(SubSeq(df, 1, Len(df) - 1)), df[Len(df)])

\* combined.dropna(subset=["metric_name","series_id","period_date"]) (line 584)
dropna(df) ==
    SelectSeq(df, LAMBDA r : r.metric_name # NA /\ r.series_id # NA /\ r.period_date # NaT)

\* The keys of groupby(["metric_name","series_id"]), in their sorted order.
RECURSIVE SortedKeys(_)
SortedKeys(S) ==
    IF S = {} THEN <<>>
    ELSE LET k == CHOOSE x \in S : \A y \in S \ {x} :
                      StrLess(x[1], y[1]) \/ (x[1] = y[1] /\ StrLess(x[2], y[2]))
         IN  <<k>> \o SortedKeys(S \ {k})

\* .agg(min_date, max_date, n_obs, n_years) of one group (lines 587-588)
agg(df, k) ==
    LET g == SelectSeq(df, LAMBDA r : r.metric_name = k[1] /\ r.series_id = k[2])
        dates == {g[i].period_date : i \in DOMAIN g}
    IN  [metric_name |-> k[1], series_id |-> k[2],
         min_date |-> CHOOSE d \in dates : \A e \in dates : d <= e,
         max_date |-> CHOOSE d \in dates : \A e \in dates : d >= e,
         n_obs |-> Len(g),
         n_years |-> Cardinality({Year(d) : d \in dates})]

\* lines 584-591: the coverage frame of the merged frame.
coverage(df) ==
    LET kept == dropna(df)
        keys == SortedKeys({<<kept[i].metric_name, kept[i].series_id>> : i \in DOMAIN kept})
    IN  [i \in DOMAIN keys |-> agg(kept, keys[i])]

----------------------------------------------------------------------------
(* Merge stage: the state machine.  A run loads the input CSV, takes the   *)
(* rows the metric loop collected, and goes through lines 540-582; the     *)
(* rerun feeds the merged file back as the input of a second run that      *)
(* collects the same rows.                                                 *)

NormIdle ==
    /\ ser_in = <<>> /\ ser_info = <<>> /\ ser_df = <<>> /\ frequency = <<>>
    /\ ser_rows = <<>>
    /\ npc = "idle"

TransIdle ==
    /\ base_df = <<>> /\ kind = "" /\ pad_fill = FALSE /\ trans = <<>>
    /\ trans_rows = <<>> /\ tpc = "idle"

SpreadIdle ==
    /\ a_df = <<>> /\ b_df = <<>> /\ spread_df = <<>> /\ spread_rows = <<>>
    /\ spc = "idle"

\* Python's None.
None == [id |-> 0]

ResolveIdle ==
    /\ seasonality = "SA" /\ found = <<>> /\ items = <<>> /\ best = None
    /\ fred_id = 0 /\ rpc = "idle"

StoreIdle ==
    /\ script = "" /\ unique_key = FALSE /\ table0 = <<>> /\ committed = <<>>
    /\ tx = <<>> /\ csv = <<>> /\ next_row = 0 /\ store_pc = "idle" /\ run_count = 0

RaceIdle == shared = <<>> /\ writers = <<>>

ChangeIdle == raw_values = <<>> /\ yoy_change = NaN /\ ypc = "idle"

FetchIdle ==
    /\ raw_obs = <<>> /\ obs_df = <<>> /\ obs_rows = <<>> /\ obs_values = <<>>
    /\ fpc = "idle"

RunIdle ==
    /\ program = "backfill" /\ add_notes = FALSE /\ todo = <<>>
    /\ processed = 0 /\ contributed = 0 /\ failures = 0 /\ written = {}
    /\ last_iter = [metric |-> "", answers |-> <<>>, result |-> ""]
    /\ exit_status = -1 /\ upc = "idle"

MergeIdle ==
    /\ today = 0 /\ in_file = <<>> /\ rows = <<>> /\ existing = <<>>
    /\ fetched = <<>> /\ combined = <<>> /\ out_file = <<>>
    /\ mpc = "idle" /\ run_no = 0 /\ result1 = <<>> /\ cov = <<>>

MergeInputs ==
    /\ today \in Todays
    /\ in_file \in SeqsUpTo(ExistingUniverse, MaxExisting)
    /\ rows \in SeqsUpTo(FetchedUniverse, MaxFetched)
    /\ existing = <<>> /\ fetched = <<>> /\ combined = <<>> /\ out_file = <<>>
    /\ mpc = "load" /\ run_no = 1 /\ result1 = <<>> /\ cov = <<>>

\* lines 421-427: existing = concat of the input CSVs, required columns.
LoadExisting ==
    /\ mpc = "load"
    /\ existing' = read_csv(in_file)
    /\ mpc' = "fetched"
    /\ UNCHANGED <<today, in_file, rows, fetched, combined, out_file, run_no, result1>>
    /\ UNCHANGED <<cov, nonMergeVars>>

\* lines 540-543: fetched = pd.DataFrame(rows); an empty frame ends the run.
BuildFetched ==
    /\ mpc = "fetched"
    /\ fetched' = rows
    /\ mpc' = IF rows = <<>> THEN "exit1" ELSE "constrain"
    /\ UNCHANGED <<today, in_file, rows, existing, combined, out_file, run_no, result1>>
    /\ UNCHANGED <<cov, nonMergeVars>>

\* lines 545-548: keep the fetched rows of the last ten years.
ConstrainWindow ==
    /\ mpc = "constrain"
    /\ fetched' = ConstrainFetched(fetched, today)
    /\ mpc' = "types"
    /\ UNCHANGED <<today, in_file, rows, existing, combined, out_file, run_no, result1>>
    /\ UNCHANGED <<cov, nonMergeVars>>

\* lines 550-557: type and category of the fetched rows from the maps.
EnsureTypes ==
    /\ mpc = "types"
    /\ fetched' = FillTypeCat(fetched)
    /\ mpc' = "combine"
    /\ UNCHANGED <<today, in_file, rows, existing, combined, out_file, run_no, result1>>
    /\ UNCHANGED <<cov, nonMergeVars>>

\* lines 559-565: concat existing then fetched, drop duplicates keeping last.
Combine ==
    /\ mpc = "combine"
    /\ combined' = Deduplicate(existing \o fetched)
    /\ mpc' = "blanks"
    /\ UNCHANGED <<today, in_file, rows, existing, fetched, out_file, run_no, result1>>
    /\ UNCHANGED <<cov, nonMergeVars>>

\* lines 567-569: the six string columns filled and stripped.
FillBlanksStep ==
    /\ mpc = "blanks"
    /\ combined' = FillBlanks(combined)
    /\ mpc' = "sort"
    /\ UNCHANGED <<today, in_file, rows, existing, fetched, out_file, run_no, result1>>
    /\ UNCHANGED <<cov, nonMergeVars>>

\* lines 571-573: column order, sort, reset_index.
SortStep ==
    /\ mpc = "sort"
    /\ combined' = sort_values(combined)
    /\ mpc' = "save"
    /\ UNCHANGED <<today, in_file, rows, existing, fetched, out_file, run_no, result1>>
    /\ UNCHANGED <<cov, nonMergeVars>>

\* line 582: combined.to_csv(args.out_full)
SaveMerged ==
    /\ mpc = "save"
    /\ out_file' = to_csv(combined)
    /\ result1' = IF run_no = 1 THEN combined ELSE result1
    /\ mpc' = "coverage"
    /\ UNCHANGED <<today, in_file, rows, existing, fetched, combined, run_no>>
    /\ UNCHANGED <<cov, nonMergeVars>>

\* lines 584-594: the coverage report of the merged frame.
CoverageReport ==
    /\ mpc = "coverage"
    /\ cov' = coverage(combined)
    /\ mpc' = "done"
    /\ UNCHANGED <<today, in_file, rows, existing, fetched, combined, out_file, run_no, result1>>
    /\ UNCHANGED nonMergeVars

\* The next run: --in1 is the file the first run wrote, the API returns the
\* same observations, so the loop collects the same rows.
Rerun ==
    /\ mpc = "done" /\ run_no = 1
    /\ in_file' = out_file
    /\ existing' = <<>> /\ fetched' = <<>> /\ combined' = <<>>
    /\ run_no' = 2
    /\ mpc' = "load"
    /\ UNCHANGED <<today, rows, out_file, result1>>
    /\ UNCHANGED <<cov, nonMergeVars>>

MergeNext ==
    \/ LoadExisting \/ BuildFetched \/ ConstrainWindow \/ EnsureTypes
    \/ Combine \/ FillBlanksStep \/ SortStep \/ SaveMerged \/ CoverageReport
    \/ Rerun

MergeInit == MergeInputs /\ NormIdle /\ TransIdle /\ SpreadIdle /\ ResolveIdle /\ RunIdle /\ StoreIdle /\ FetchIdle /\ RaceIdle /\ ChangeIdle

SpecMerge == MergeInit /\ [][MergeNext]_vars

----------------------------------------------------------------------------
(* Merge stage: properties                                                 *)

Merged == mpc \in {"save", "coverage", "done"}

\* The row of the existing table is not also a row of the incoming batch.
NotIncoming(e) == \A j \in DOMAIN fetched : fetched[j] # e

BeforeWindow(r) == r.period_date # NaT /\ r.period_date < min_allowed(today)

\* C1 (as claimed): merge idempotence.  When the merged table of a run is
\* merged again with the same incoming batch, the second result has exactly
\* the rows of the first, in the same order.
C1_MergeIdempotent ==
    (mpc = "done" /\ run_no = 2) => combined = result1

C3_RevisedValueCollapses ==
    Merged =>
        \A i \in DOMAIN existing : \A j \in DOMAIN fetched :
            ( /\ SameOn(existing[i], fetched[j], REQUIRED_COLS \ {"value"})
              /\ existing[i].value # fetched[j].value
              /\ NotIncoming(existing[i]) )
            => /\ FillBlanksRow(fetched[j]) \in Range(combined)
               /\ FillBlanksRow(existing[i]) \notin Range(combined)

----------------------------------------------------------------------------
(* Frequency normalization of a directly fetched series (lines 505-536)    *)

Weekly == <<"W", "e", "e", "k", "l", "y">>
Daily == <<"D", "a", "i", "l", "y">>

Obs(d, v) == [date |-> d, value |-> v]

\* Bound of the normalizer: observations in one fetched series.
MaxObs == 3

\* Observation dates and values of the model.  2024-01-05 and 2024-01-31
\* share a month, 2024-02 is a leap February, 2024-03-01 is the date FRED
\* gives a monthly observation.
ObsDates == {20240105, 20240131, 20240210, 20240301}
ObsValues == {Num(1), Num(2), Num(3), NaN}
ObsUniverse == {Obs(d, v) : d \in ObsDates, v \in ObsValues}

\* A fetched series holds one observation per date.
DistinctDates(df) == \A i, j \in DOMAIN df : i # j => df[i].date # df[j].date

SeriesUpTo(n) == {df \in SeqsUpTo(ObsUniverse, n) : DistinctDates(df)}

RECURSIVE SortedSeq(_)
SortedSeq(S) ==
    IF S = {} THEN <<>>
    ELSE LET m == CHOOSE x \in S : \A y \in S : x <= y
         IN  <<m>> \o SortedSeq(S \ {m})

\* A slip: the dates are left as they are.
keep_dates(df) == df

\* df["date"] = df["date"].dt.to_period("M").dt.to_timestamp("M")
to_month_end(df) == [i \in DOMAIN df |-> [df[i] EXCEPT !.date = month_end(@)]]

\* The group keys of groupby("date"): the distinct dates, ascending.
GroupKeys(df) == SortedSeq({df[i].date : i \in DOMAIN df})

\* The rows of one group, in the order of the frame.
Group(df, key) == SelectSeq(df, LAMBDA r : r.date = key)

\* GroupBy.last() on one column: the last value that is not absent.
RECURSIVE LastValid(_)
LastValid(g) ==
    IF g = <<>> THEN NaN
    ELSE IF g[Len(g)].value # NaN THEN g[Len(g)].value
    ELSE LastValid(SubSeq(g, 1, Len(g) - 1))

\* A slip: GroupBy.first() in place of last().
RECURSIVE FirstValid(_)
FirstValid(g) ==
    IF g = <<>> THEN NaN
    ELSE IF Head(g).value # NaN THEN Head(g).value
    ELSE FirstValid(Tail(g))

groupby_first(df) ==
    LET keys == GroupKeys(df)
    IN  [k \in DOMAIN keys |-> Obs(keys[k], FirstValid(Group(df, keys[k])))]

\* df.groupby("date", as_index=False).last()
groupby_last(df) ==
    LET keys == GroupKeys(df)
    IN  [k \in DOMAIN keys |-> Obs(keys[k], LastValid(Group(df, keys[k])))]

\* Series.idxmax() within one group: the first row holding the largest date.
IdxMax(g) ==
    CHOOSE i \in DOMAIN g :
        /\ \A j \in DOMAIN g : g[j].date <= g[i].date
        /\ \A j \in DOMAIN g : j < i => g[j].date < g[i].date

\* align_weekly_to_month_end (lines 311-319)
align_weekly_to_month_end(df) ==
    IF df = <<>> THEN df
    ELSE LET tmp == [i \in DOMAIN df |->
                        [date |-> df[i].date, value |-> df[i].value,
                         month |-> month_end(df[i].date)]]
             keys == SortedSeq({tmp[i].month : i \in DOMAIN tmp})
             grp(k) == SelectSeq(tmp, LAMBDA r : r.month = keys[k])
         IN  [k \in DOMAIN keys |-> Obs(keys[k], grp(k)[IdxMax(grp(k))].value)]

\* The dict appended per row (lines 526-536), the fields the model follows.
SeriesRow(r, fq) == [frequency |-> fq, value |-> r.value, period_date |-> r.date]

NormInputs ==
    /\ ser_in \in SeriesUpTo(MaxObs)
    /\ ser_info \in {Daily, Weekly, Monthly}
    /\ ser_df = <<>> /\ frequency = <<>> /\ ser_rows = <<>>
    /\ npc = "fetch"

\* lines 505-513: fetch the series and its info; an empty series is skipped.
FetchSeries ==
    /\ npc = "fetch"
    /\ ser_df' = ser_in
    /\ frequency' = ser_info
    /\ npc' = IF ser_in = <<>> THEN "done" ELSE "weekly"
    /\ UNCHANGED <<ser_in, ser_info, ser_rows>>
    /\ UNCHANGED nonNormVars

\* lines 515-518
AlignWeekly ==
    /\ npc = "weekly"
    /\ IF frequency = Weekly
       THEN ser_df' = align_weekly_to_month_end(ser_df) /\ frequency' = Monthly
       ELSE UNCHANGED <<ser_df, frequency>>
    /\ npc' = "daily"
    /\ UNCHANGED <<ser_in, ser_info, ser_rows>>
    /\ UNCHANGED nonNormVars

\* lines 520-524
AlignDaily ==
    /\ npc = "daily"
    /\ IF frequency = Daily
       THEN ser_df' = groupby_last(to_month_end(ser_df)) /\ frequency' = Monthly
       ELSE UNCHANGED <<ser_df, frequency>>
    /\ npc' = "emit"
    /\ UNCHANGED <<ser_in, ser_info, ser_rows>>
    /\ UNCHANGED nonNormVars

\* lines 526-536: one row per row of ser_df.
AppendSeriesRows ==
    /\ npc = "emit"
    /\ ser_rows' = [i \in DOMAIN ser_df |-> SeriesRow(ser_df[i], frequency)]
    /\ npc' = "done"
    /\ UNCHANGED <<ser_in, ser_info, ser_df, frequency>>
    /\ UNCHANGED nonNormVars

NormNext == FetchSeries \/ AlignWeekly \/ AlignDaily \/ AppendSeriesRows

NormInit == NormInputs /\ MergeIdle /\ TransIdle /\ SpreadIdle /\ ResolveIdle /\ RunIdle /\ StoreIdle /\ FetchIdle /\ RaceIdle /\ ChangeIdle

SpecNorm == NormInit /\ [][NormNext]_vars

----------------------------------------------------------------------------
(* Frequency normalization: properties                                     *)

DailyDone == npc = "done" /\ ser_info = Daily /\ ser_in # <<>>

Ascending(df) == \A i, j \in DOMAIN df : i < j => df[i].date < df[j].date

MonthsOf(df) == {month_end(df[i].date) : i \in DOMAIN df}

InMonth(df, i, m) == i \in DOMAIN df /\ month_end(df[i].date) = m

\* The observation of month m with the latest date.
LatestDated(df, m) ==
    CHOOSE i \in DOMAIN df :
        InMonth(df, i, m) /\ \A j \in DOMAIN df : InMonth(df, j, m) => df[j].date <= df[i].date

\* One row per calendar month that has an observation, ascending, each dated
\* the last calendar day of its month.
OneRowPerMonth ==
    /\ Len(ser_rows) = Cardinality(MonthsOf(ser_in))
    /\ {ser_rows[k].period_date : k \in DOMAIN ser_rows} = MonthsOf(ser_in)
    /\ \A k, l \in DOMAIN ser_rows : k < l => ser_rows[k].period_date < ser_rows[l].period_date
    /\ \A k \in DOMAIN ser_rows :
          Day(ser_rows[k].period_date)
              = DaysInMonth(Year(ser_rows[k].period_date), Month(ser_rows[k].period_date))

ExampleDaily == <<Obs(20240105, Num(1)), Obs(20240131, Num(2)), Obs(20240210, Num(3))>>

ExampleMonthly ==
    <<[frequency |-> Monthly, value |-> Num(2), period_date |-> 20240131],
      [frequency |-> Monthly, value |-> Num(3), period_date |-> 20240229]>>

C11_MonthlyRowsAtMonthEnd ==
    \A k \in DOMAIN ser_rows :
        ser_rows[k].frequency = Monthly =>
            ser_rows[k].period_date = month_end(ser_rows[k].period_date)

----------------------------------------------------------------------------
(* Arithmetic of the value column.  A number is the pair <<n, d>> of the   *)
(* rational n/d in lowest terms with d > 0, or <<1, 0>> (+inf) or          *)
(* <<-1, 0>> (-inf); NaN is absent.  Division follows IEEE 754 on zero     *)
(* and absent operands; rounding is not modelled.                          *)

Abs(n) == IF n < 0 THEN -n ELSE n

RECURSIVE GCD(_, _)
GCD(a, b) == IF b = 0 THEN a ELSE GCD(b, a % b)

Sign(n) == IF n > 0 THEN 1 ELSE IF n < 0 THEN -1 ELSE 0

PosInf == <<1, 0>>
NegInf == <<-1, 0>>

IsInf(x) == x # NaN /\ x[2] = 0

\* The number n/d, d # 0, in lowest terms.
Rat(n, d) ==
    LET g == GCD(Abs(n), Abs(d))
    IN  <<Sign(d) * (n \div g), Abs(d) \div g>>

\* x / y
FDiv(x, y) ==
    IF x = NaN \/ y = NaN THEN NaN
    ELSE IF IsInf(x) THEN (IF IsInf(y) THEN NaN
                           ELSE IF Sign(y[1]) >= 0 THEN x ELSE <<-x[1], 0>>)
    ELSE IF IsInf(y) THEN Num(0)
    ELSE IF y[1] = 0 THEN (IF x[1] = 0 THEN NaN ELSE <<Sign(x[1]), 0>>)
    ELSE Rat(x[1] * y[2], x[2] * y[1])

\* x - y
FSub(x, y) ==
    IF x = NaN \/ y = NaN THEN NaN
    ELSE IF IsInf(x) THEN (IF IsInf(y) /\ y = x THEN NaN ELSE x)
    ELSE IF IsInf(y) THEN <<-y[1], 0>>
    ELSE Rat(x[1] * y[2] - y[1] * x[2], x[2] * y[2])

\* x * y
FMul(x, y) ==
    IF x = NaN \/ y = NaN THEN NaN
    ELSE IF IsInf(x) \/ IsInf(y)
         THEN (IF x[1] = 0 \/ y[1] = 0 THEN NaN ELSE <<Sign(x[1]) * Sign(y[1]), 0>>)
    ELSE Rat(x[1] * y[1], x[2] * y[2])

\* x ** 4
FPow4(x) == FMul(FMul(x, x), FMul(x, x))

----------------------------------------------------------------------------
(* Derived metrics: compute_transform (lines 298-309) and the branch of    *)
(* main that uses it (lines 479-503)                                       *)

\* Bound of the derived-metric branch: observations of the base series.
MaxBase == 13

\* The date of the i-th monthly observation, from 2023-01-01.
MonthDate(i) == MkDate(2023 + ((i - 1) \div 12), ((i - 1) % 12) + 1, 1)

\* Base series of the model: n monthly observations of value 100, at most
\* one of them replaced by 110, 0 or an absent value, returned in ascending
\* or in descending date order.
BaseValues(n) ==
    {[i \in 1..n |-> Num(100)]}
    \cup {[i \in 1..n |-> IF i = p THEN v ELSE Num(100)] :
             p \in 1..n, v \in {Num(110), Num(0), NaN}}

Reverse(sq) == [i \in DOMAIN sq |-> sq[Len(sq) + 1 - i]]

BaseSeries(n) ==
    LET asc == {[i \in 1..k |-> Obs(MonthDate(i), vs[i])] : k \in {n}, vs \in BaseValues(n)}
    IN  asc \cup {Reverse(df) : df \in asc}

\* df.sort_values("date"), on a frame of distinct dates.
sort_by_date(df) ==
    LET keys == SortedSeq({df[i].date : i \in DOMAIN df})
    IN  [k \in DOMAIN keys |-> CHOOSE r \in Range(df) : r.date = keys[k]]

\* Series.ffill(): an absent value takes the last value before it, if any.
RECURSIVE ffill(_)
ffill(vs) ==
    IF vs = <<>> THEN <<>>
    ELSE LET front == ffill(SubSeq(vs, 1, Len(vs) - 1))
             last == vs[Len(vs)]
         IN  Append(front, IF last = NaN /\ front # <<>> THEN front[Len(front)] ELSE last)

\* Series.shift(periods): position i takes the value of position i - periods.
shift(vs, periods) == [i \in DOMAIN vs |-> IF i <= periods THEN NaN ELSE vs[i - periods]]

\* Series.pct_change(periods): data / data.shift(periods) - 1, where data is
\* the series itself or, with the default fill_method of pandas before 3.0,
\* the series forward-filled.
pct_change(vs, periods, pad) ==
    LET data == IF pad THEN ffill(vs) ELSE vs
        shifted == shift(data, periods)
    IN  [i \in DOMAIN vs |-> FSub(FDiv(data[i], shifted[i]), Num(1))]

Times100(vs) == [i \in DOMAIN vs |-> FMul(vs[i], Num(100))]

\* A slip: the year-over-year offset one short.
yoy_pct_eleven(vs, pad) == Times100(pct_change(vs, 11, pad))

\* line 302
yoy_pct(vs, pad) == Times100(pct_change(vs, 12, pad))

\* line 304
mom_pct(vs, pad) == Times100(pct_change(vs, 1, pad))

\* lines 307-308
gdp_qoq_annualized(vs) ==
    LET sh == shift(vs, 1)
    IN  Times100([i \in DOMAIN vs |-> FSub(FPow4(FDiv(vs[i], sh[i])), Num(1))])

compute_transform(k, df, pad) ==
    LET out == sort_by_date(df)
        vs == [i \in DOMAIN out |-> out[i].value]
        new == IF k = "yoy_pct" THEN yoy_pct(vs, pad)
               ELSE IF k = "mom_pct" THEN mom_pct(vs, pad)
               ELSE IF k = "gdp_qoq_annualized" THEN gdp_qoq_annualized(vs)
               ELSE vs
    IN  [i \in DOMAIN out |-> Obs(out[i].date, new[i])]

\* The dict appended per row (lines 490-500), the fields the model follows.
DerivedRow(r) == [value |-> r.value, period_date |-> r.date]

TransInputs ==
    /\ base_df \in UNION {BaseSeries(n) : n \in 0..MaxBase}
    /\ kind \in {"yoy_pct", "mom_pct", "gdp_qoq_annualized"}
    /\ pad_fill \in BOOLEAN
    /\ trans = <<>> /\ trans_rows = <<>>
    /\ tpc = "fetch"

\* lines 479-483: the base series is fetched; an empty one skips the metric.
FetchBase ==
    /\ tpc = "fetch"
    /\ tpc' = IF base_df = <<>> THEN "done" ELSE "transform"
    /\ UNCHANGED <<base_df, kind, pad_fill, trans, trans_rows>>
    /\ UNCHANGED nonTransVars

\* line 484
ComputeTransform ==
    /\ tpc = "transform"
    /\ trans' = compute_transform(kind, base_df, pad_fill)
    /\ tpc' = "emit"
    /\ UNCHANGED <<base_df, kind, pad_fill, trans_rows>>
    /\ UNCHANGED nonTransVars

\* lines 485-503: one row per row of the transformed frame.
AppendDerivedRows ==
    /\ tpc = "emit"
    /\ trans_rows' = [i \in DOMAIN trans |-> DerivedRow(trans[i])]
    /\ tpc' = "done"
    /\ UNCHANGED <<base_df, kind, pad_fill, trans>>
    /\ UNCHANGED nonTransVars

TransNext == FetchBase \/ ComputeTransform \/ AppendDerivedRows

TransInit == TransInputs /\ MergeIdle /\ NormIdle /\ SpreadIdle /\ ResolveIdle /\ RunIdle /\ StoreIdle /\ FetchIdle /\ RaceIdle /\ ChangeIdle

SpecTrans == TransInit /\ [][TransNext]_vars

----------------------------------------------------------------------------
(* Derived metrics: properties                                             *)

YoYDone == tpc = "done" /\ kind = "yoy_pct"

Min(a, b) == IF a < b THEN a ELSE b

----------------------------------------------------------------------------
(* The spread metric (lines 434-463)                                       *)

\* date.toordinal(): days of the proleptic Gregorian calendar.
DaysBeforeYear(y) == (y - 1) * 365 + ((y - 1) \div 4) - ((y - 1) \div 100) + ((y - 1) \div 400)

RECURSIVE DaysBeforeMonth(_, _)
DaysBeforeMonth(y, m) ==
    IF m = 1 THEN 0 ELSE DaysBeforeMonth(y, m - 1) + DaysInMonth(y, m - 1)

Ordinal(d) == DaysBeforeYear(Year(d)) + DaysBeforeMonth(Year(d), Month(d)) + Day(d)

\* Whole days from d1 to d2.
DaysBetween(d1, d2) == Ordinal(d2) - Ordinal(d1)

\* tolerance=pd.Timedelta("2D") (line 442)
TOLERANCE_DAYS == 2

\* Bounds of the spread branch: observations of each of the two series.
MaxSpreadA == 2
MaxSpreadB == 2

SpreadDates == {20240130, 20240131, 20240201, 20240205}
SpreadUniverseA == {Obs(d, v) : d \in SpreadDates, v \in {Num(5), NaN}}
SpreadUniverseB == {Obs(d, v) : d \in SpreadDates, v \in {Num(2), Num(3), NaN}}

NoMatch == 0

\* The backward candidate of merge_asof: the last row of the sorted right
\* frame dated at or before d, dropped when it is beyond the tolerance.
BackwardMatch(right, d, tol) ==
    LET at == {j \in DOMAIN right : right[j].date <= d}
        j == CHOOSE x \in at : \A y \in at : y <= x
    IN  IF at = {} THEN NoMatch
        ELSE IF DaysBetween(right[j].date, d) > tol THEN NoMatch
        ELSE j

\* The forward candidate: the first row dated at or after d.
ForwardMatch(right, d, tol) ==
    LET at == {j \in DOMAIN right : right[j].date >= d}
        j == CHOOSE x \in at : \A y \in at : x <= y
    IN  IF at = {} THEN NoMatch
        ELSE IF DaysBetween(d, right[j].date) > tol THEN NoMatch
        ELSE j

\* direction="nearest": the candidate with the smaller distance, the
\* backward one on a tie.
NearestMatch(right, d, tol) ==
    LET bk == BackwardMatch(right, d, tol)
        fw == ForwardMatch(right, d, tol)
    IN  IF bk # NoMatch /\ fw # NoMatch
        THEN (IF DaysBetween(right[bk].date, d) <= DaysBetween(d, right[fw].date)
              THEN bk ELSE fw)
        ELSE IF bk # NoMatch THEN bk ELSE fw

\* A slip: merge_asof without the tolerance argument.
merge_asof_no_tolerance(left, right) ==
    LET l == sort_by_date(left)
        r == sort_by_date(right)
    IN  [i \in DOMAIN l |->
            LET j == NearestMatch(r, l[i].date, 1000000)
            IN  [date |-> l[i].date, value_a |-> l[i].value,
                 value_b |-> IF j = NoMatch THEN NaN ELSE r[j].value]]

\* pd.merge_asof(a.sort_values("date"), b.sort_values("date"), on="date",
\*               direction="nearest", tolerance=pd.Timedelta("2D")): every
\* row of the left frame, with the value of its match or an absent value.
merge_asof(left, right) ==
    LET l == sort_by_date(left)
        r == sort_by_date(right)
    IN  [i \in DOMAIN l |->
            LET j == NearestMatch(r, l[i].date, TOLERANCE_DAYS)
            IN  [date |-> l[i].date, value_a |-> l[i].value,
                 value_b |-> IF j = NoMatch THEN NaN ELSE r[j].value]]

\* lines 443-444
spread_values(df) == [i \in DOMAIN df |-> Obs(df[i].date, FSub(df[i].value_a, df[i].value_b))]

SpreadInputs ==
    /\ a_df \in {df \in SeqsUpTo(SpreadUniverseA, MaxSpreadA) : DistinctDates(df)}
    /\ b_df \in {df \in SeqsUpTo(SpreadUniverseB, MaxSpreadB) : DistinctDates(df)}
    /\ spread_df = <<>> /\ spread_rows = <<>>
    /\ spc = "fetch"

\* lines 436-441: both series fetched; the metric is skipped if one is empty.
FetchPair ==
    /\ spc = "fetch"
    /\ spc' = IF a_df = <<>> \/ b_df = <<>> THEN "done" ELSE "asof"
    /\ UNCHANGED <<a_df, b_df, spread_df, spread_rows>>
    /\ UNCHANGED nonSpreadVars

\* lines 442-444
MergeAsof ==
    /\ spc = "asof"
    /\ spread_df' = spread_values(merge_asof(a_df, b_df))
    /\ spc' = "align"
    /\ UNCHANGED <<a_df, b_df, spread_rows>>
    /\ UNCHANGED nonSpreadVars

\* lines 445-447
AlignSpread ==
    /\ spc = "align"
    /\ spread_df' = groupby_last(to_month_end(spread_df))
    /\ spc' = "emit"
    /\ UNCHANGED <<a_df, b_df, spread_rows>>
    /\ UNCHANGED nonSpreadVars

\* lines 448-463
AppendSpreadRows ==
    /\ spc = "emit"
    /\ spread_rows' = [i \in DOMAIN spread_df |-> SeriesRow(spread_df[i], Monthly)]
    /\ spc' = "done"
    /\ UNCHANGED <<a_df, b_df, spread_df>>
    /\ UNCHANGED nonSpreadVars

SpreadNext == FetchPair \/ MergeAsof \/ AlignSpread \/ AppendSpreadRows

SpreadInit == SpreadInputs /\ MergeIdle /\ NormIdle /\ TransIdle /\ ResolveIdle /\ RunIdle /\ StoreIdle /\ FetchIdle /\ RaceIdle /\ ChangeIdle

SpecSpread == SpreadInit /\ [][SpreadNext]_vars

----------------------------------------------------------------------------
(* The spread metric: properties                                           *)

SpreadDone == spc = "done" /\ a_df # <<>> /\ b_df # <<>>

Apart(x, y) == Abs(DaysBetween(x.date, y.date))

\* Observation j of b is a nearest-dated observation of b for observation
\* i of a.
Nearest(i, j) == \A j2 \in DOMAIN b_df : Apart(a_df[i], b_df[j]) <= Apart(a_df[i], b_df[j2])

\* A row's value, when present, is a - b of an observation of a in the
\* row's month and a nearest-dated observation of b at most 2 days from it.
PairedWithinTolerance ==
    \A k \in DOMAIN spread_rows :
        spread_rows[k].value # NaN =>
            \E i \in DOMAIN a_df : \E j \in DOMAIN b_df :
                /\ month_end(a_df[i].date) = spread_rows[k].period_date
                /\ Apart(a_df[i], b_df[j]) <= 2
                /\ Nearest(i, j)
                /\ spread_rows[k].value = FSub(a_df[i].value, b_df[j].value)

OneEach == Len(a_df) = 1 /\ Len(b_df) = 1

----------------------------------------------------------------------------
(* The resolver: search and choose (lines 279-296, 465-476)                *)

SA == <<"S", "A">>
NSA == <<"N", "S", "A">>

\* Bound of the resolver: candidates in one search response.
MaxItems == 2

\* The fields of a candidate that choose_best_candidate reads.
CandidateFields ==
    [seasonal_adjustment_short : {SA, NSA},
     popularity : {10, 50},
     frequency : {"Weekly", "Biweekly", "Monthly", "Quarterly", "Semiannual"},
     last_updated : {<<"2", "0", "2", "2", "-", "0", "1", "-", "0", "1">>,
                     <<"2", "0", "2", "3", "-", "0", "1", "-", "0", "1">>}]

\* A search response: candidate i has the series id i.
SearchResponses ==
    {[i \in DOMAIN c |->
        [id |-> i,
         seasonal_adjustment_short |-> c[i].seasonal_adjustment_short,
         popularity |-> c[i].popularity,
         frequency |-> c[i].frequency,
         last_updated |-> c[i].last_updated]] : c \in SeqsUpTo(CandidateFields, MaxItems)}

\* str.upper() of one character, for the letters that occur.
Upper(ch) == IF ch = "s" THEN "S" ELSE IF ch = "n" THEN "N" ELSE IF ch = "a" THEN "A" ELSE ch

\* s.upper().startswith("S")
UpperStartsWithS(s) == s # <<>> /\ Upper(Head(s)) = "S"

\* line 294: the weight table.
FREQ_WEIGHTS ==
    [Daily |-> 1, Weekly |-> 2, Biweekly |-> 2, Monthly |-> 3, Quarterly |-> 4, Annual |-> 5]

freq_weight(f) == IF f \in DOMAIN FREQ_WEIGHTS THEN FREQ_WEIGHTS[f] ELSE 10

\* A slip: popularity ahead of the seasonal adjustment flag.
score_popularity_first(it) ==
    <<it.popularity,
      IF UpperStartsWithS(it.seasonal_adjustment_short) THEN 1 ELSE 0,
      0 - freq_weight(it.frequency),
      it.last_updated>>

\* lines 290-295
score(it) ==
    <<IF UpperStartsWithS(it.seasonal_adjustment_short) THEN 1 ELSE 0,
      it.popularity,
      0 - freq_weight(it.frequency),
      it.last_updated>>

\* Python's tuple order on scores: three integers, then a string.
ScoreLess(x, y) ==
    \/ x[1] < y[1]
    \/ x[1] = y[1] /\ x[2] < y[2]
    \/ x[1] = y[1] /\ x[2] = y[2] /\ x[3] < y[3]
    \/ x[1] = y[1] /\ x[2] = y[2] /\ x[3] = y[3] /\ StrLess(x[4], y[4])

\* A slip: it goes ahead of the elements whose key equals its own.
RECURSIVE InsertDescending_before_ties(_, _)
InsertDescending_before_ties(sorted, it) ==
    IF sorted = <<>> THEN <<it>>
    ELSE IF ~ScoreLess(score(it), score(Head(sorted))) THEN <<it>> \o sorted
    ELSE <<Head(sorted)>> \o InsertDescending_before_ties(Tail(sorted), it)

\* One step of the stable descending sort: it goes behind every element
\* whose key is not less than its own.
RECURSIVE InsertDescending(_, _)
InsertDescending(sorted, it) ==
    IF sorted = <<>> THEN <<it>>
    ELSE IF ScoreLess(score(Head(sorted)), score(it)) THEN <<it>> \o sorted
    ELSE <<Head(sorted)>> \o InsertDescending(Tail(sorted), it)

\* sorted(items, key=score, reverse=True)
RECURSIVE sorted_reverse(_)
sorted_reverse(its) ==
    IF its = <<>> THEN <<>>
    ELSE InsertDescending(sorted_reverse(SubSeq(its, 1, Len(its) - 1)), its[Len(its)])

\* lines 286-296
choose_best_candidate(its) ==
    IF its = <<>> THEN None ELSE sorted_reverse(its)[1]

\* lines 279-284: seasonal_adj is "Seasonally Adjusted" or None.
fred_search_series(response, seasonal_adj) ==
    IF seasonal_adj # <<>>
    THEN SelectSeq(response, LAMBDA it : UpperStartsWithS(it.seasonal_adjustment_short))
    ELSE response

ResolveInputs ==
    /\ seasonality \in {"SA", "NSA"}
    /\ found \in SearchResponses
    /\ items = <<>> /\ best = None /\ fred_id = 0
    /\ rpc = "search"

\* line 470
Search ==
    /\ rpc = "search"
    /\ items' = fred_search_series(found, IF seasonality = "SA" THEN SA ELSE <<>>)
    /\ rpc' = "choose"
    /\ UNCHANGED <<seasonality, found, best, fred_id>>
    /\ UNCHANGED nonResolveVars

\* line 471
Choose ==
    /\ rpc = "choose"
    /\ best' = choose_best_candidate(items)
    /\ rpc' = "resolve"
    /\ UNCHANGED <<seasonality, found, items, fred_id>>
    /\ UNCHANGED nonResolveVars

\* lines 472-476
Resolve ==
    /\ rpc = "resolve"
    /\ fred_id' = best.id
    /\ rpc' = "done"
    /\ UNCHANGED <<seasonality, found, items, best>>
    /\ UNCHANGED nonResolveVars

ResolveNext == Search \/ Choose \/ Resolve

ResolveInit == ResolveInputs /\ MergeIdle /\ NormIdle /\ TransIdle /\ SpreadIdle /\ RunIdle /\ StoreIdle /\ FetchIdle /\ RaceIdle /\ ChangeIdle

SpecResolve == ResolveInit /\ [][ResolveNext]_vars

----------------------------------------------------------------------------
(* The resolver: properties                                                *)

Chosen == rpc \in {"resolve", "done"} /\ items # <<>>

Adjusted(it) == it.seasonal_adjustment_short = SA

\* The weight table as the claim states it, finest first.
FrequencyClasses == <<{"Daily"}, {"Weekly", "Biweekly"}, {"Monthly"}, {"Quarterly"}, {"Annual"}>>

Tabled(it) == \E k \in DOMAIN FrequencyClasses : it.frequency \in FrequencyClasses[k]

ClassOf(it) == CHOOSE k \in DOMAIN FrequencyClasses : it.frequency \in FrequencyClasses[k]

\* x is ahead of y in the lexicographic order of the claim.
Ahead(x, y) ==
    \/ Adjusted(x) /\ ~Adjusted(y)
    \/ /\ Adjusted(x) = Adjusted(y)
       /\ \/ x.popularity > y.popularity
          \/ /\ x.popularity = y.popularity
             /\ \/ ClassOf(x) < ClassOf(y)
                \/ ClassOf(x) = ClassOf(y) /\ StrLess(y.last_updated, x.last_updated)

----------------------------------------------------------------------------
(* One run: the metric loop, the emptiness check and the writes            *)
(* (backfill lines 432-595; fred_data_script lines 199-237 and 324-402)    *)

\* Bound of the run: metrics in the list the loop goes through.
MaxMetrics == 3

\* What one API request can give: observations or candidates, an empty
\* list, or an error (raise_for_status, a timeout, a refused connection).
ApiOutcomes == {"data", "empty", "error"}

\* The branches of the backfill loop: the spread (line 434), a derived
\* metric (line 479), a metric with an override id (line 466) and one
\* resolved by search (line 469).
MetricKinds == {"spread", "derived", "direct", "search"}

\* lines 505-538 for a resolved id: r1 answers the observations request,
\* r2 the series info request.
fetch_direct(r1, r2) ==
    IF r1 = "error" THEN "raise"
    ELSE IF r1 = "empty" THEN "skip"
    ELSE IF r2 = "error" THEN "raise"
    ELSE "rows"

\* A slip: the result of the search used without the guard of line 472.
run_metric_unguarded(k, r) ==
    CASE k = "spread" ->
            IF r[1] = "error" \/ r[2] = "error" THEN "raise"
            ELSE IF r[1] = "empty" \/ r[2] = "empty" THEN "skip"
            ELSE "rows"
      [] k = "derived" ->
            IF r[1] = "error" THEN "raise"
            ELSE IF r[1] = "empty" THEN "skip"
            ELSE "rows"
      [] k = "direct" -> fetch_direct(r[1], r[2])
      [] k = "search" ->
            IF r[1] \in {"error", "empty"} THEN "raise"
            ELSE fetch_direct(r[2], r[3])

\* One iteration of the backfill loop (lines 432-538), r answering its
\* requests in order: "rows" if it appended rows, "skip" if it reached a
\* `continue`, "raise" if a request raised (fred_get_json, lines 253-254,
\* has no handler and neither has any caller).
run_metric(k, r) ==
    CASE k = "spread" ->
            IF r[1] = "error" \/ r[2] = "error" THEN "raise"
            ELSE IF r[1] = "empty" \/ r[2] = "empty" THEN "skip"
            ELSE "rows"
      [] k = "derived" ->
            IF r[1] = "error" THEN "raise"
            ELSE IF r[1] = "empty" THEN "skip"
            ELSE "rows"
      [] k = "direct" -> fetch_direct(r[1], r[2])
      [] k = "search" ->
            IF r[1] = "error" THEN "raise"
            ELSE IF r[1] = "empty" THEN "skip"
            ELSE fetch_direct(r[2], r[3])

\* A slip: the emptiness check never exits.
exit_never(n) == FALSE

\* line 541: fetched.empty
exit_on_empty(n) == n = 0

RunInputs ==
    /\ program \in {"backfill", "fred_data_script"}
    /\ add_notes \in (IF program = "backfill" THEN BOOLEAN ELSE {FALSE})
    /\ todo \in (IF program = "backfill"
                 THEN SeqsUpTo(MetricKinds, MaxMetrics) \ {<<>>}
                 ELSE SeqsUpTo({"indicator"}, MaxMetrics) \ {<<>>})
    /\ processed = 0 /\ contributed = 0 /\ failures = 0 /\ written = {}
    /\ last_iter = [metric |-> "", answers |-> <<>>, result |-> ""]
    /\ exit_status = -1
    /\ upc = "loop"

\* backfill lines 432-538: an iteration in which no request raises.
ProcessMetric ==
    /\ program = "backfill" /\ upc = "loop" /\ todo # <<>>
    /\ \E r \in [1..3 -> ApiOutcomes] :
          /\ run_metric(Head(todo), r) # "raise"
          /\ contributed' = IF run_metric(Head(todo), r) = "rows"
                            THEN contributed + 1 ELSE contributed
          /\ failures' = failures
          /\ last_iter' = [metric |-> Head(todo), answers |-> r,
                      result |-> run_metric(Head(todo), r)]
    /\ todo' = Tail(todo)
    /\ processed' = processed + 1
    /\ UNCHANGED <<program, add_notes, written, exit_status, upc>>
    /\ UNCHANGED nonRunVars

\* backfill lines 253-254: a request of the iteration raises; the exception
\* leaves main and the interpreter exits with status 1.
RaiseInMetric ==
    /\ program = "backfill" /\ upc = "loop" /\ todo # <<>>
    /\ \E r \in [1..3 -> ApiOutcomes] :
          /\ run_metric(Head(todo), r) = "raise"
          /\ last_iter' = [metric |-> Head(todo), answers |-> r, result |-> "raise"]
    /\ failures' = failures + 1
    /\ exit_status' = 1
    /\ upc' = "crashed"
    /\ UNCHANGED <<program, add_notes, todo, processed, contributed, written>>
    /\ UNCHANGED nonRunVars

\* backfill lines 540-573: the emptiness check, then the merge in memory.
CheckFetched ==
    /\ program = "backfill" /\ upc = "loop" /\ todo = <<>>
    /\ IF exit_on_empty(contributed)
       THEN exit_status' = 1 /\ upc' = "exited"
       ELSE exit_status' = exit_status /\ upc' = "notes"
    /\ UNCHANGED <<program, add_notes, todo, processed, contributed, failures, last_iter, written>>
    /\ UNCHANGED nonRunVars

\* backfill lines 575-580
WriteNotes ==
    /\ program = "backfill" /\ upc = "notes"
    /\ written' = IF add_notes THEN written \cup {"notes"} ELSE written
    /\ upc' = "save"
    /\ UNCHANGED <<program, add_notes, todo, processed, contributed, failures, last_iter, exit_status>>
    /\ UNCHANGED nonRunVars

\* backfill lines 582-583
WriteMerged ==
    /\ program = "backfill" /\ upc = "save"
    /\ written' = written \cup {"merged"}
    /\ upc' = "coverage"
    /\ UNCHANGED <<program, add_notes, todo, processed, contributed, failures, last_iter, exit_status>>
    /\ UNCHANGED nonRunVars

\* backfill lines 584-595
WriteCoverage ==
    /\ program = "backfill" /\ upc = "coverage"
    /\ written' = written \cup {"coverage"}
    /\ exit_status' = 0
    /\ upc' = "exited"
    /\ UNCHANGED <<program, add_notes, todo, processed, contributed, failures, last_iter>>
    /\ UNCHANGED nonRunVars

\* fred_data_script lines 336-377: fetch_series_data (lines 199-237)
\* returns None on a request or parse error, and the loop goes on;
\* calculate_metrics may give nothing.
FetchIndicator ==
    /\ program = "fred_data_script" /\ upc = "loop" /\ todo # <<>>
    /\ \E o \in ApiOutcomes, metrics \in BOOLEAN :
          /\ failures' = IF o = "error" THEN failures + 1 ELSE failures
          /\ contributed' = IF o = "data" /\ metrics THEN contributed + 1 ELSE contributed
          /\ last_iter' = [metric |-> Head(todo), answers |-> <<o>>,
                      result |-> IF o = "data" /\ metrics THEN "rows" ELSE "skip"]
    /\ todo' = Tail(todo)
    /\ processed' = processed + 1
    /\ UNCHANGED <<program, add_notes, written, exit_status, upc>>
    /\ UNCHANGED nonRunVars

\* fred_data_script lines 379-402
SaveDataset ==
    /\ program = "fred_data_script" /\ upc = "loop" /\ todo = <<>>
    /\ written' = IF contributed > 0 THEN {"dataset"} ELSE {}
    /\ exit_status' = 0
    /\ upc' = "exited"
    /\ UNCHANGED <<program, add_notes, todo, processed, contributed, failures, last_iter>>
    /\ UNCHANGED nonRunVars

RunNext ==
    \/ ProcessMetric \/ RaiseInMetric \/ CheckFetched
    \/ WriteNotes \/ WriteMerged \/ WriteCoverage
    \/ FetchIndicator \/ SaveDataset

RunInit == RunInputs /\ MergeIdle /\ NormIdle /\ TransIdle /\ SpreadIdle /\ ResolveIdle /\ StoreIdle /\ FetchIdle /\ RaceIdle /\ ChangeIdle

SpecRun == RunInit /\ [][RunNext]_vars

\* The interpreter keeps executing and every request has a timeout
\* (line 253), so a step that can be taken is taken.
SpecRunFair == SpecRun /\ WF_vars(RunNext)

----------------------------------------------------------------------------
(* One run: properties                                                     *)

RunEnded == upc \in {"exited", "crashed"}

\* C9: in a run of the backfill no file is written unless the emptiness
\* check has passed with at least one row collected; a run that has ended
\* with no row collected has a non-zero exit status and has written no
\* file; and every run ends.
C9_TotalFailureWritesNothing ==
    /\ [](program = "backfill" =>
            /\ written # {} => (contributed > 0 /\ upc \in {"save", "coverage", "exited"})
            /\ (RunEnded /\ contributed = 0) => (exit_status = 1 /\ written = {}))
    /\ <>RunEnded

\* C9 witness: a backfill run that went through two metrics or more,
\* collected nothing, and exited with status 1 at the emptiness check.
C9_Witness ==
    /\ program = "backfill" /\ upc = "exited" /\ processed >= 2
    /\ contributed = 0 /\ exit_status = 1 /\ written = {}

\* C10 (as claimed): a failed API request does not crash the run, and the
\* run goes on to process the remaining metrics.
C10_FailureIsCaught ==
    /\ [](failures > 0 => upc # "crashed")
    /\ <>(todo = <<>>)


----------------------------------------------------------------------------
(* Derived metrics: zero and missing denominators                          *)

TransDone == tpc = "done" /\ base_df # <<>>

\* The offset each transform looks back (lines 302, 304, 307).
Periods == IF kind = "yoy_pct" THEN 12 ELSE 1

\* The value the transform of position i divides by: that of position
\* i - Periods of the date-sorted base, absent for the first positions.
Denominator(i) ==
    IF i <= Periods THEN NaN ELSE sort_by_date(base_df)[i - Periods].value

\* C14: one row per position of the base is emitted, and a position whose
\* denominator is zero or missing has an absent value, not a number and
\* not an infinity.
C14_BadDenominatorGivesAbsent ==
    TransDone =>
        /\ Len(trans_rows) = Len(base_df)
        /\ \A i \in DOMAIN trans_rows :
              Denominator(i) \in {NaN, Num(0)} => trans_rows[i].value = NaN


----------------------------------------------------------------------------
(* Frequency normalization: the weekly and the daily rule compared         *)

AlignedDone == npc = "done" /\ ser_in # <<>> /\ ser_info \in {Weekly, Daily}

\* The rows the weekly rule (lines 516-518, 526-536) appends for df.
WeeklyRows(df) ==
    LET out == align_weekly_to_month_end(df)
    IN  [i \in DOMAIN out |-> SeriesRow(out[i], Monthly)]

\* The rows the daily rule (lines 521-524, 526-536) appends for df.
DailyRows(df) ==
    LET out == groupby_last(to_month_end(df))
    IN  [i \in DOMAIN out |-> SeriesRow(out[i], Monthly)]

\* C17: the weekly and the daily alignment give the same rows for every
\* observation sequence, absent values and unsorted sequences included.
C17_WeeklyEqualsDaily ==
    AlignedDone =>
        /\ ser_rows = WeeklyRows(ser_in)
        /\ ser_rows = DailyRows(ser_in)

\* C18: the monthly output for any order of the observations is the one
\* obtained from the date-ascending order, and the value kept for a month
\* is that of its latest-dated observation.
C18_OrderIndependent ==
    AlignedDone =>
        /\ ser_rows = (IF ser_info = Weekly THEN WeeklyRows(sort_by_date(ser_in))
                       ELSE DailyRows(sort_by_date(ser_in)))
        /\ \A k \in DOMAIN ser_rows :
              ser_rows[k].value = ser_in[LatestDated(ser_in, ser_rows[k].period_date)].value


----------------------------------------------------------------------------
(* The shape of the monthly output of the weekly, daily and spread         *)
(* alignments, checked over the two components together                    *)

AlignInit == NormInit \/ SpreadInit

AlignNext == NormNext \/ SpreadNext

SpecAlign == AlignInit /\ [][AlignNext]_vars

\* Strictly ascending dates, hence at most one row per date; every date a
\* month end, hence at most one row per calendar month; and no date
\* outside the months of the input.
MonthlyShape(out, in) ==
    /\ \A k, l \in DOMAIN out : k < l => out[k].period_date < out[l].period_date
    /\ \A k \in DOMAIN out : out[k].period_date = month_end(out[k].period_date)
    /\ \A k \in DOMAIN out : out[k].period_date \in MonthsOf(in)


\* C19: the monthly output of the weekly and daily alignments and of the
\* spread is strictly ascending by date, has at most one row per calendar
\* month, and has rows only for months in which the input (for the spread,
\* series a) has an observation.
C19_MonthlyOutputShape ==
    /\ AlignedDone => MonthlyShape(ser_rows, ser_in)
    /\ SpreadDone => MonthlyShape(spread_rows, a_df)

\* C19 witness: a daily series with two observations in one month and one
\* in another has been aligned to two rows.
C19_Witness ==
    /\ AlignedDone /\ ser_info = Daily /\ Len(ser_in) = 3 /\ Len(ser_rows) = 2
    /\ Cardinality(MonthsOf(ser_in)) = 2


----------------------------------------------------------------------------
(* Merge stage: the string columns of the merged output                    *)

\* Row out is row r with every string column trimmed, the empty string for
\* an absent one, and value and period_date as they were.
TrimmedFrom(out, r) ==
    /\ out.value = r.value /\ out.period_date = r.period_date
    /\ \A c \in STRING_COLS :
          out[c] = (IF r[c] = NA THEN <<>> ELSE Strip(r[c]))

\* C20: in every row of the merged output each of the six string columns
\* holds a string, not an absent value, with no leading or trailing
\* whitespace, and the row is an input row (existing or fetched) whose
\* absent strings have become empty strings.
C20_StringColumnsTrimmed ==
    Merged =>
        \A k \in DOMAIN combined :
            /\ \A c \in STRING_COLS :
                  /\ combined[k][c] # NA
                  /\ combined[k][c] = <<>>
                        \/ (Head(combined[k][c]) # " "
                            /\ combined[k][c][Len(combined[k][c])] # " ")
            /\ \E r \in Range(existing) \cup Range(fetched) : TrimmedFrom(combined[k], r)

\* C20 witness: the merged output holds a row that came from an existing
\* row with an absent string column and a padded one.
C20_Witness ==
    /\ mpc = "done" /\ run_no = 1
    /\ \E i \in DOMAIN existing : \E k \in DOMAIN combined :
          /\ TrimmedFrom(combined[k], existing[i])
          /\ \E c \in STRING_COLS : existing[i][c] = NA
          /\ \E c \in STRING_COLS :
                existing[i][c] # NA /\ Strip(existing[i][c]) # existing[i][c]


----------------------------------------------------------------------------
(* One run: a metric that cannot be resolved                               *)

\* C16: an iteration of the backfill loop for a metric with no override id
\* and no computation spec whose search returns no candidate appends no
\* row, leaves the rows collected so far and the files as they are, does
\* not end the run, and the loop goes on with the next metric.
C16_UnresolvedMetricSkipped ==
    [][ ( /\ program = "backfill" /\ upc = "loop" /\ todo # <<>>
          /\ Head(todo) = "search"
          /\ last_iter'.answers # <<>> /\ last_iter'.answers[1] = "empty" )
        => ( /\ last_iter'.result = "skip"
             /\ contributed' = contributed
             /\ written' = written
             /\ todo' = Tail(todo)
             /\ upc' = "loop" /\ exit_status' = -1 ) ]_vars

\* C16 witness: after a metric that contributed rows, a metric resolved by
\* search found no candidate and was skipped, and the loop is still running
\* with a metric to go.
C16_Witness ==
    /\ program = "backfill" /\ upc = "loop" /\ processed = 2 /\ contributed = 1
    /\ last_iter.metric = "search" /\ last_iter.answers[1] = "empty" /\ last_iter.result = "skip"
    /\ todo # <<>>


----------------------------------------------------------------------------
(* The store: one run of import_economic_data, import_comprehensive_data,  *)
(* import_harmonized_data or populate_database against its table.  The     *)
(* run works in one transaction (psycopg2 opens it at the first statement) *)
(* that conn.commit() makes visible; the schema of the tables is not part  *)
(* of the sources; the store is the one described, with a uniqueness       *)
(* constraint on (series_id, period_date).                                 *)

\* populate_historical_data.py line 23: current_date = datetime(2025, 7, 22)
CurrentDate == 20250722

\* Bound of the store: rows in the file (or the data) a run imports.
MaxCsv == 3

\* Bound of the store: runs of a script over one file.
MaxRuns == 2

\* A slip of the schema: no constraint on the key.
NO_UNIQUE_KEY == FALSE

\* The primary-key/uniqueness constraint of the store on
\* (series_id, period_date).
UNIQUE_KEY == TRUE

StoreRow(sid, d, v) == [series_id |-> sid, period_date |-> d, value |-> v]

StoreDates == {20250622, CurrentDate}

\* Rows of a file: a value can be an empty cell.
CsvRows == {StoreRow(CPILFESL, d, v) : d \in StoreDates, v \in {Num(1), Num(2), NaN}}

\* Tables before the run: at most one row per (series_id, period_date).
StoreTables ==
    {t \in SeqsUpTo({r \in CsvRows : r.value # NaN}, 2) :
        \A i, j \in DOMAIN t : i < j => t[i].period_date < t[j].period_date}

SameKey(r, q) == r.series_id = q.series_id /\ r.period_date = q.period_date

\* SELECT COUNT(*) ... WHERE series_id = %s AND period_date = %s, > 0
key_exists(t, r) == \E i \in DOMAIN t : SameKey(t[i], r)

\* INSERT INTO ... VALUES (...)
insert_row(t, r) == Append(t, r)

\* The columns of DO UPDATE SET (populate_historical_data.py lines 329-336)
UPDATED_COLS ==
    {"value", "forecast", "prior_value", "monthly_change", "annual_change",
     "z_score_12m", "three_month_annualized", "updated_at"}

\* A row of economic_indicators_history.  The descriptive columns are those
\* of indicators_data (by_script) or those of a row written by other means;
\* the analytic columns are the ones computed with value v, NULL in a row
\* written without them; NOW() is the time t of the writing transaction.
PopulateRecord(d, v, by_script, t) ==
    [series_id |-> CPILFESL, period_date |-> d, value |-> v,
     metric_name |-> IF by_script THEN "Core CPI Year-over-Year" ELSE "Core CPI",
     type |-> IF by_script THEN "Lagging" ELSE "lagging",
     category |-> IF by_script THEN "Inflation" ELSE "Prices",
     unit |-> IF by_script THEN "percent" ELSE "%",
     frequency |-> IF by_script THEN "monthly" ELSE "Monthly",
     release_date |-> IF by_script THEN d ELSE d + 1,
     forecast |-> IF by_script THEN Num(3) ELSE NaN,
     prior_value |-> IF by_script THEN <<"prior_value", v>> ELSE NaN,
     monthly_change |-> IF by_script THEN <<"monthly_change", v>> ELSE NaN,
     annual_change |-> IF by_script THEN <<"annual_change", v>> ELSE NaN,
     z_score_12m |-> IF by_script THEN <<"z_score_12m", v>> ELSE NaN,
     three_month_annualized |-> IF by_script THEN <<"three_month_annualized", v>> ELSE NaN,
     created_at |-> t, updated_at |-> t]

\* The rows populate_database writes (lines 339-384), at the time 1 of its
\* transaction.
PopulateRows == {PopulateRecord(d, v, TRUE, 1) : d \in StoreDates, v \in {Num(1), Num(2)}}

\* Tables of economic_indicators_history before the run, written at time 0.
PopulateTables ==
    {t \in SeqsUpTo({PopulateRecord(d, v, b, 0) :
                        d \in StoreDates, v \in {Num(1), Num(2)}, b \in BOOLEAN}, 2) :
        \A i, j \in DOMAIN t : i < j => t[i].period_date < t[j].period_date}

\* A slip: the stored row replaced by the incoming one.
upsert_replace(t, r) ==
    IF key_exists(t, r)
    THEN [i \in DOMAIN t |-> IF SameKey(t[i], r) THEN r ELSE t[i]]
    ELSE insert_row(t, r)

\* INSERT ... ON CONFLICT (series_id, period_date) DO UPDATE SET value =
\* EXCLUDED.value, ... (populate_historical_data.py lines 321-337)
upsert_row(t, r) ==
    IF key_exists(t, r)
    THEN [i \in DOMAIN t |->
            IF SameKey(t[i], r)
            THEN [c \in DOMAIN t[i] |-> IF c \in UPDATED_COLS THEN r[c] ELSE t[i][c]]
            ELSE t[i]]
    ELSE insert_row(t, r)

\* A slip: the insert without the look-up of the key.
import_row_unchecked(t, r) ==
    IF r.value = NaN \/ r.period_date = NaT THEN t
    ELSE insert_row(t, r)

\* import_economic_data.py lines 55-86 (import_comprehensive_economic_data.py
\* lines 59-106): a row with an empty value is passed over, a row whose key
\* is in the table is counted and nothing else, any other row is inserted.
import_row(t, r) ==
    IF r.value = NaN \/ r.period_date = NaT THEN t
    ELSE IF key_exists(t, r) THEN t
    ELSE insert_row(t, r)

StoreInputs ==
    /\ script \in {"import_economic_data", "import_comprehensive_data",
                   "import_harmonized_data", "populate_database"}
    /\ unique_key = UNIQUE_KEY
    /\ table0 \in (IF script = "populate_database" THEN PopulateTables ELSE StoreTables)
    /\ committed = table0 /\ tx = table0
    /\ csv \in (IF script = "populate_database"
                THEN {c \in SeqsUpTo(PopulateRows, MaxCsv) :
                        c # <<>> /\ c[1].period_date = CurrentDate}
                ELSE SeqsUpTo(CsvRows, MaxCsv))
    /\ next_row = 1
    /\ store_pc = "loop"
    /\ run_count = 1

\* import_economic_data.py lines 54-89, import_comprehensive_economic_data.py
\* lines 58-109: one iteration of the loop.
ImportRow ==
    /\ script \in {"import_economic_data", "import_comprehensive_data"}
    /\ store_pc = "loop" /\ next_row <= Len(csv)
    /\ tx' = import_row(tx, csv[next_row])
    /\ next_row' = next_row + 1
    /\ UNCHANGED <<script, unique_key, table0, committed, csv, store_pc>>
    /\ UNCHANGED <<run_count, nonStoreVars>>

\* populate_historical_data.py lines 339-355 and 368-384: one execute of
\* insert_query; ON CONFLICT needs the unique index, without it the
\* statement fails.
UpsertRow ==
    /\ script = "populate_database" /\ unique_key
    /\ store_pc = "loop" /\ next_row <= Len(csv)
    /\ tx' = upsert_row(tx, csv[next_row])
    /\ next_row' = next_row + 1
    /\ UNCHANGED <<script, unique_key, table0, committed, csv, store_pc>>
    /\ UNCHANGED <<run_count, nonStoreVars>>

\* import_harmonized_data.py lines 34-62: the plain INSERT of one row of a
\* batch; with a unique key a row whose key is in the table fails.
InsertHarmonized ==
    /\ script = "import_harmonized_data"
    /\ store_pc = "loop" /\ next_row <= Len(csv)
    /\ ~(unique_key /\ key_exists(tx, csv[next_row]))
    /\ tx' = insert_row(tx, csv[next_row])
    /\ next_row' = next_row + 1
    /\ UNCHANGED <<script, unique_key, table0, committed, csv, store_pc>>
    /\ UNCHANGED <<run_count, nonStoreVars>>

\* A statement before the commit, or the commit, fails (the connection, a
\* constraint, a cell that cannot be converted): the handler rolls back
\* and re-raises (import_economic_data.py lines 116-119,
\* populate_historical_data.py lines 410-413); import_harmonized_data.py
\* lines 84-86 re-raise only, and the transaction ends unfinished with the
\* process.
FailStatement ==
    /\ store_pc = "loop"
    /\ tx' = committed
    /\ store_pc' = "failed"
    /\ UNCHANGED <<script, unique_key, table0, committed, csv, next_row>>
    /\ UNCHANGED <<run_count, nonStoreVars>>

\* conn.commit() (import_economic_data.py line 92,
\* populate_historical_data.py line 389, import_harmonized_data.py line 64)
Commit ==
    /\ store_pc = "loop" /\ next_row > Len(csv)
    /\ committed' = tx
    /\ store_pc' = "verify"
    /\ UNCHANGED <<script, unique_key, table0, tx, csv, next_row>>
    /\ UNCHANGED <<run_count, nonStoreVars>>

\* The counts and samples queried and printed after the commit
\* (import_economic_data.py lines 94-114, populate_historical_data.py lines
\* 390-408, import_harmonized_data.py lines 65-82).  populate_database's
\* print of line 408 has a format specifier that raises for every row of
\* the sample, so it goes through only when the sample is empty.
Verify ==
    /\ store_pc = "verify"
    /\ script = "populate_database" =>
          \A i \in DOMAIN committed : committed[i].period_date # CurrentDate
    /\ store_pc' = "done"
    /\ UNCHANGED <<script, unique_key, table0, committed, tx, csv, next_row>>
    /\ UNCHANGED <<run_count, nonStoreVars>>

\* A statement after the commit fails: the rollback of the handler has
\* nothing to undo and the error is re-raised.
FailAfterCommit ==
    /\ store_pc = "verify"
    /\ store_pc' = "failed"
    /\ UNCHANGED <<script, unique_key, table0, committed, tx, csv, next_row>>
    /\ UNCHANGED <<run_count, nonStoreVars>>

\* The script is run again on the same file after a run that went through:
\* the table it finds is the one the last run committed.
StoreRerun ==
    /\ store_pc = "done" /\ run_count < MaxRuns
    /\ run_count' = run_count + 1
    /\ table0' = committed
    /\ tx' = committed
    /\ next_row' = 1
    /\ store_pc' = "loop"
    /\ UNCHANGED <<script, unique_key, committed, csv>>
    /\ UNCHANGED nonStoreVars

StoreNext ==
    \/ ImportRow \/ UpsertRow \/ InsertHarmonized \/ FailStatement
    \/ Commit \/ Verify \/ FailAfterCommit \/ StoreRerun

StoreInit ==
    StoreInputs /\ MergeIdle /\ NormIdle /\ TransIdle /\ SpreadIdle /\ ResolveIdle /\ RunIdle /\ FetchIdle /\ RaceIdle /\ ChangeIdle

SpecStore == StoreInit /\ [][StoreNext]_vars

----------------------------------------------------------------------------
(* The store: properties                                                   *)

\* The value of the last row of the file with the key of row r.
LastIncoming(r) ==
    LET is == {i \in DOMAIN csv : SameKey(csv[i], r) /\ csv[i].value # NaN}
    IN  csv[CHOOSE i \in is : \A j \in is : j <= i].value

\* C12: when a run of one of the three scripts has committed, every key
\* that was in the table and came in with a value holds the incoming value
\* (the last one the file gives it), in one row.
C12_ConflictOverwrites ==
    ( /\ store_pc \in {"verify", "done"}
      /\ script \in {"import_economic_data", "import_comprehensive_data", "populate_database"} )
    => \A i \in DOMAIN csv :
          (csv[i].value # NaN /\ key_exists(table0, csv[i])) =>
              /\ Cardinality({k \in DOMAIN committed : SameKey(committed[k], csv[i])}) = 1
              /\ \A k \in DOMAIN committed :
                    SameKey(committed[k], csv[i]) => committed[k].value = LastIncoming(csv[i])

\* C13: after a run that failed, the table is the table before the run.
C13_FailedRunLeavesStore ==
    store_pc = "failed" => committed = table0


----------------------------------------------------------------------------
(* The observations of one series as the API returns them (strings), read  *)
(* by fred_fetch_series and emitted by the direct branch of main for a     *)
(* monthly series, or read by fetch_fred_series of script 2.               *)

\* Bound of the fetch: observations in one response.
MaxRaw == 3

\* The text of a date and the day it names; a text outside the table is
\* one pd.to_datetime cannot parse.
DateOf == ("2024-01-01" :> 20240101) @@ ("2024-02-01" :> 20240201)

\* The text of a value and the number it names; "." is the sentinel of the
\* source for a missing value, any other text outside the table is not a
\* number.
FloatOf == ("1.0" :> Num(1)) @@ ("2.0" :> Num(2))

RawObservations ==
    [date : DOMAIN DateOf \cup {"2024-13-01"}, value : DOMAIN FloatOf \cup {".", "abc"}]

\* pd.to_numeric(df["value"].replace(".", pd.NA), errors="coerce")
to_numeric(s) ==
    LET replaced == IF s = "." THEN "<NA>" ELSE s
    IN  IF replaced \in DOMAIN FloatOf THEN FloatOf[replaced] ELSE NaN

\* pd.to_datetime(df["date"]): raises when a text is not a date
to_datetime_raises(obs) == \E i \in DOMAIN obs : obs[i].date \notin DOMAIN DateOf

\* fred_fetch_series, lines 264-272
fred_fetch_series(obs) ==
    [i \in DOMAIN obs |-> [date |-> DateOf[obs[i].date], value |-> to_numeric(obs[i].value)]]

\* main, lines 526-536: one row per row of ser_df, whatever its value
observation_rows(df) ==
    [i \in DOMAIN df |->
        [period_date |-> df[i].date,
         value |-> IF df[i].value # NaN THEN df[i].value ELSE NA]]

\* script 2, lines 62-68: float(obs['value']) raises ValueError for a text
\* that is not a number, and the observation is passed over
RECURSIVE float_values(_)
float_values(obs) ==
    IF obs = <<>> THEN <<>>
    ELSE LET v == Head(obs).value
         IN  IF v \in DOMAIN FloatOf /\ v # "."
             THEN <<FloatOf[v]>> \o float_values(Tail(obs))
             ELSE float_values(Tail(obs))

\* script 2, line 71: observations[::-1]
fetch_fred_series(obs) == Reverse(float_values(obs))

FetchInputs ==
    /\ raw_obs \in SeqsUpTo(RawObservations, MaxRaw)
    /\ obs_df = <<>> /\ obs_rows = <<>> /\ obs_values = <<>>
    /\ fpc = "start"

\* backfill: ser_df = fred_fetch_series(...) (line 506); the error of
\* pd.to_datetime is not handled anywhere in main and ends the run.
FetchObservations ==
    /\ fpc = "start"
    /\ IF to_datetime_raises(raw_obs)
       THEN /\ fpc' = "raised"
            /\ UNCHANGED obs_df
       ELSE /\ obs_df' = fred_fetch_series(raw_obs)
            /\ fpc' = "fetched"
    /\ UNCHANGED <<raw_obs, obs_rows, obs_values>>
    /\ UNCHANGED nonFetchVars

\* backfill: lines 507-508 and 526-536 for a series that is monthly at the
\* source
AppendObservationRows ==
    /\ fpc = "fetched"
    /\ obs_rows' = observation_rows(obs_df)
    /\ fpc' = "appended"
    /\ UNCHANGED <<raw_obs, obs_df, obs_values>>
    /\ UNCHANGED nonFetchVars

\* script 2: fetch_fred_series over the same response
FetchScript2 ==
    /\ fpc = "start"
    /\ obs_values' = fetch_fred_series(raw_obs)
    /\ fpc' = "listed"
    /\ UNCHANGED <<raw_obs, obs_df, obs_rows>>
    /\ UNCHANGED nonFetchVars

FetchNext == FetchObservations \/ AppendObservationRows \/ FetchScript2

FetchInit ==
    FetchInputs /\ MergeIdle /\ NormIdle /\ TransIdle /\ SpreadIdle /\ ResolveIdle /\ RunIdle /\ StoreIdle /\ RaceIdle /\ ChangeIdle

SpecFetch == FetchInit /\ [][FetchNext]_vars

----------------------------------------------------------------------------
(* The observations: properties                                            *)

GoodValue(o) == o.value \in {"1.0", "2.0"}

GoodDate(o) == o.date \in {"2024-01-01", "2024-02-01"}

RECURSIVE Kept(_)
Kept(obs) ==
    IF obs = <<>> THEN <<>>
    ELSE IF GoodValue(Head(obs)) /\ GoodDate(Head(obs))
         THEN <<Head(obs)>> \o Kept(Tail(obs))
         ELSE Kept(Tail(obs))

DayNamed(s) == IF s = "2024-01-01" THEN 20240101 ELSE 20240201

NumberNamed(s) == IF s = "1.0" THEN <<1, 1>> ELSE <<2, 1>>

\* C15: the rows emitted for a series are those of its observations with a
\* numeric value and a date that parses, in their order, whatever the
\* other observations are; script 2 keeps the numeric values.
C15_BadObservationDropped ==
    /\ fpc # "raised"
    /\ fpc = "appended" =>
          LET kept == Kept(raw_obs)
          IN  /\ Len(obs_rows) = Len(kept)
              /\ \A i \in DOMAIN kept :
                    /\ obs_rows[i].period_date = DayNamed(kept[i].date)
                    /\ obs_rows[i].value = NumberNamed(kept[i].value)
    /\ fpc = "listed" =>
          /\ Len(obs_values) = Cardinality({i \in DOMAIN raw_obs : GoodValue(raw_obs[i])})
          /\ \A v \in Range(obs_values) : v \in {<<1, 1>>, <<2, 1>>}


----------------------------------------------------------------------------
(* Merge stage: the order of the merged output                             *)

\* The frame the sort of line 573 receives.
BeforeSort == FillBlanks(Deduplicate(existing \o fetched))

\* a before b in the order of the code points, NaT after every date.
KeyBefore(r1, r2) ==
    \/ StrLess(r1.metric_name, r2.metric_name)
    \/ /\ r1.metric_name = r2.metric_name
       /\ StrLess(r1.series_id, r2.series_id)
    \/ /\ r1.metric_name = r2.metric_name
       /\ r1.series_id = r2.series_id
       /\ r1.period_date # NaT
       /\ (r2.period_date = NaT \/ r1.period_date < r2.period_date)

KeyTie(r1, r2) ==
    /\ r1.metric_name = r2.metric_name
    /\ r1.series_id = r2.series_id
    /\ r1.period_date = r2.period_date

\* The rows of df with the three keys of r, in their order.
WithKeyOf(df, r) == SelectSeq(df, LAMBDA q : KeyTie(q, r))

\* C21: the merged output is the frame before the sort rearranged so that
\* no row comes after a row with a greater key (absent period_date last in
\* its group), and rows with the same three keys keep the order they had.
C21_SortedStable ==
    mpc = "save" =>
        LET before == BeforeSort
        IN  /\ \A i, j \in DOMAIN combined : i < j => ~KeyBefore(combined[j], combined[i])
            /\ Len(combined) = Len(before)
            /\ \A i \in DOMAIN before :
                  WithKeyOf(combined, before[i]) = WithKeyOf(before, before[i])

\* A merged output the sort rearranged, with two rows of one key that
\* differ and a row without period_date after the dated rows of its group.
C21_Witness ==
    /\ mpc = "save"
    /\ combined # BeforeSort
    /\ \E i, j \in DOMAIN combined :
          i < j /\ KeyTie(combined[i], combined[j]) /\ combined[i] # combined[j]
    /\ \E i, j \in DOMAIN combined :
          /\ i < j /\ combined[j].period_date = NaT /\ combined[i].period_date # NaT
          /\ combined[i].metric_name = combined[j].metric_name


----------------------------------------------------------------------------
(* Merge stage: the coverage report                                        *)

\* A row of the concatenated input with an absent key column.
AbsentKey(r) == r.metric_name = NA \/ r.series_id = NA \/ r.period_date = NaT

\* The merged row r comes from the input row q (the string columns filled
\* and stripped).
ComesFrom(r, q) == r = FillBlanksRow(q)

\* C22: no row of the coverage report counts a merged row that comes from
\* an input row with an absent metric_name, series_id or period_date: such
\* rows form no group, and n_obs counts the other rows of the group only.
C22_CoverageExcludesAbsentKeys ==
    mpc = "done" =>
        LET input == existing \o fetched
            counted(g) == {i \in DOMAIN combined :
                             /\ combined[i].metric_name = g.metric_name
                             /\ combined[i].series_id = g.series_id
                             /\ \A j \in DOMAIN input :
                                   ComesFrom(combined[i], input[j]) => ~AbsentKey(input[j])}
        IN  \A n \in DOMAIN cov :
              /\ cov[n].n_obs = Cardinality(counted(cov[n]))
              /\ cov[n].n_obs > 0


----------------------------------------------------------------------------
(* Derived metrics: the percent changes by position                        *)

\* The value of the base observation dated MonthDate(k).
BaseAt(k) == (CHOOSE r \in Range(base_df) : r.date = MonthDate(k)).value

\* (x / y - 1) * 100
PercentChange(x, y) == FMul(FSub(FDiv(x, y), Num(1)), Num(100))

\* C23: a yoy_pct (mom_pct) metric gives, at every position past the first
\* 12 (the first) of the base in date order, the percent change of the
\* base value of that position over the base value 12 positions (one
\* position) before it, whatever the order of the rows of the base.
C23_PercentChangeByPosition ==
    (tpc = "done" /\ kind \in {"yoy_pct", "mom_pct"}) =>
        LET periods == IF kind = "yoy_pct" THEN 12 ELSE 1
        IN  \A k \in DOMAIN trans_rows :
              k > periods =>
                  /\ trans_rows[k].period_date = MonthDate(k)
                  /\ trans_rows[k].value = PercentChange(BaseAt(k), BaseAt(k - periods))


----------------------------------------------------------------------------
(* The store: the frame of the upsert                                      *)

\* C24: an insert of populate_database that hits a stored (series_id,
\* period_date) gives the stored row the incoming value, forecast,
\* prior_value, monthly_change, annual_change, z_score_12m,
\* three_month_annualized and updated_at, leaves its series_id,
\* period_date, metric_name, type, category, unit, frequency, release_date
\* and created_at as they were, leaves every other row as it was, and does
\* not change the number of rows.
C24_UpsertFrame ==
    [][ (UpsertRow /\ key_exists(tx, csv[next_row])) =>
          /\ Len(tx') = Len(tx)
          /\ \A i \in DOMAIN tx :
                IF SameKey(tx[i], csv[next_row])
                THEN /\ \A c \in {"value", "forecast", "prior_value", "monthly_change",
                                  "annual_change", "z_score_12m", "three_month_annualized",
                                  "updated_at"} : tx'[i][c] = csv[next_row][c]
                     /\ \A c \in {"series_id", "period_date", "metric_name", "type",
                                  "category", "unit", "frequency", "release_date",
                                  "created_at"} : tx'[i][c] = tx[i][c]
                ELSE tx'[i] = tx[i] ]_vars

\* An upsert has hit a stored row whose descriptive columns, release_date
\* and created_at differ from the incoming ones, and changed its value.
C24_Witness ==
    /\ script = "populate_database" /\ next_row = 2 /\ store_pc = "loop"
    /\ table0 # <<>> /\ Len(tx) = Len(table0)
    /\ \E i \in DOMAIN table0 :
          /\ SameKey(table0[i], csv[1])
          /\ table0[i].metric_name # csv[1].metric_name
          /\ table0[i].release_date # csv[1].release_date
          /\ table0[i].value # csv[1].value
          /\ tx[i].value = csv[1].value
          /\ tx[i].created_at = 0 /\ tx[i].updated_at = 1


----------------------------------------------------------------------------
(* The resolver: candidates of equal score                                 *)

\* x and y have the same score tuple.
SameScore(x, y) ==
    /\ UpperStartsWithS(x.seasonal_adjustment_short) = UpperStartsWithS(y.seasonal_adjustment_short)
    /\ x.popularity = y.popularity
    /\ freq_weight(x.frequency) = freq_weight(y.frequency)
    /\ x.last_updated = y.last_updated

\* C25: of the candidates whose score tuple is that of the chosen one, the
\* chosen one is the first in the order of the search result.
C25_FirstOfEqualScores ==
    Chosen =>
        \E k \in DOMAIN items :
            /\ best = items[k]
            /\ \A j \in DOMAIN items : SameScore(items[j], best) => k <= j

\* Two candidates of one score tuple, of different frequency names, and the
\* first has been chosen.
C25_Witness ==
    /\ rpc = "done" /\ Len(items) = 2
    /\ SameScore(items[1], items[2])
    /\ items[1].frequency # items[2].frequency
    /\ best = items[1] /\ fred_id = items[1].id


----------------------------------------------------------------------------
(* Merge stage: equal rows in the merged output                            *)

\* C26: no two rows of the merged output are equal in all eight fields.
C26_NoEqualRows ==
    Merged => \A i, j \in DOMAIN combined : i < j => combined[i] # combined[j]


----------------------------------------------------------------------------
(* The store: sequential runs of import_economic_data                      *)

KeyUnique(t) == \A i, j \in DOMAIN t : i < j => ~SameKey(t[i], t[j])

\* t begins with the rows of t0, unchanged and in their order.
Extends(t, t0) == Len(t0) <= Len(t) /\ \A i \in DOMAIN t0 : t[i] = t0[i]

\* C28: through the sequential runs of import_economic_data over a file
\* (which may repeat a key) the table has at most one row per
\* (series_id, period_date), the rows a run found are as it found them, no
\* row without value or period_date is inserted, and a run that follows a
\* run over the same file inserts nothing.
C28_SequentialImportIdempotent ==
    script = "import_economic_data" =>
        /\ KeyUnique(tx) /\ KeyUnique(committed)
        /\ Extends(tx, table0) /\ Extends(committed, table0)
        /\ \A i \in DOMAIN tx :
              i > Len(table0) => (tx[i].value # NaN /\ tx[i].period_date # NaT)
        /\ run_count >= 2 => (tx = table0 /\ committed = table0)

\* A second run has gone through over a file that names one key twice,
\* with different values, and has a row without value for the other key;
\* the table holds the first of the two values and no row for the other
\* key.
C28_Witness ==
    /\ script = "import_economic_data" /\ run_count = 2 /\ store_pc = "done"
    /\ Len(csv) = 3
    /\ SameKey(csv[1], csv[2]) /\ csv[1].value # csv[2].value /\ csv[1].value # NaN
    /\ csv[3].value = NaN /\ ~key_exists(committed, csv[3])
    /\ committed = <<csv[1]>>


----------------------------------------------------------------------------
(* The store: import_harmonized_data over stored keys                      *)

----------------------------------------------------------------------------
(* Two runs of import_economic_data (import_comprehensive_data) at the     *)
(* same time against one table.  Each run works in its own transaction:    *)
(* its look-up sees the committed rows and its own inserts; with the       *)
(* uniqueness constraint an insert of a key that another open transaction  *)
(* has inserted waits for that transaction to end.                         *)

\* Bound of the concurrent runs: rows in the file of each run.
MaxFile == 2

\* What a run sees: the committed rows and its own open inserts.
Visible(p) == shared \o writers[p].pending

Other(p) == 3 - p

\* The insert of run p waits for the other run.
Blocked(p) ==
    /\ UNIQUE_KEY
    /\ writers[p].pc = "insert" /\ ~writers[p].exists
    /\ key_exists(writers[Other(p)].pending, writers[p].file[writers[p].next])

RaceInputs ==
    /\ shared \in {<<>>, <<StoreRow(CPILFESL, CurrentDate, Num(0))>>}
    /\ writers \in [1..2 -> [file : SeqsUpTo({StoreRow(CPILFESL, d, Num(1)) : d \in StoreDates}, MaxFile),
                            next : {1}, exists : {FALSE}, pending : {<<>>}, pc : {"select"}]]

\* import_economic_data.py lines 68-74: the look-up of the key of the row.
SelectKey(p) ==
    /\ writers[p].pc = "select" /\ writers[p].next <= Len(writers[p].file)
    /\ writers' = [writers EXCEPT ![p].exists = key_exists(Visible(p), writers[p].file[writers[p].next]),
                                  ![p].pc = "insert"]
    /\ UNCHANGED shared
    /\ UNCHANGED nonRaceVars

\* import_economic_data.py lines 76-86: the insert when the look-up found
\* nothing, else the count only.  With the constraint the insert of a key
\* that has been committed since the look-up fails, and the handler of
\* lines 116-119 rolls the run back.
InsertKey(p) ==
    /\ writers[p].pc = "insert"
    /\ ~Blocked(p)
    /\ LET r == writers[p].file[writers[p].next]
       IN  writers' =
             IF writers[p].exists
             THEN [writers EXCEPT ![p].next = @ + 1, ![p].pc = "select"]
             ELSE IF UNIQUE_KEY /\ key_exists(Visible(p), r)
             THEN [writers EXCEPT ![p].pending = <<>>, ![p].pc = "failed"]
             ELSE [writers EXCEPT ![p].pending = insert_row(@, r),
                                  ![p].next = @ + 1, ![p].pc = "select"]
    /\ UNCHANGED shared
    /\ UNCHANGED nonRaceVars

\* Both inserts wait for each other: the store ends one of the two
\* transactions with an error, and its handler rolls back.
DeadlockAbort(p) ==
    /\ Blocked(p) /\ Blocked(Other(p))
    /\ writers' = [writers EXCEPT ![p].pending = <<>>, ![p].pc = "failed"]
    /\ UNCHANGED shared
    /\ UNCHANGED nonRaceVars

\* import_economic_data.py line 92: conn.commit()
CommitWriter(p) ==
    /\ writers[p].pc = "select" /\ writers[p].next > Len(writers[p].file)
    /\ shared' = shared \o writers[p].pending
    /\ writers' = [writers EXCEPT ![p].pending = <<>>, ![p].pc = "done"]
    /\ UNCHANGED nonRaceVars

RaceNext ==
    \/ \E p \in 1..2 : SelectKey(p)
    \/ \E p \in 1..2 : InsertKey(p)
    \/ \E p \in 1..2 : DeadlockAbort(p)
    \/ \E p \in 1..2 : CommitWriter(p)

RaceInit ==
    RaceInputs /\ MergeIdle /\ NormIdle /\ TransIdle /\ SpreadIdle /\ ResolveIdle /\ RunIdle /\ StoreIdle /\ FetchIdle /\ ChangeIdle

SpecRace == RaceInit /\ [][RaceNext]_vars

----------------------------------------------------------------------------
(* Two concurrent runs: properties                                         *)

----------------------------------------------------------------------------
(* calculate_yoy_change of script 2 (lines 121-132), called with the list  *)
(* fetch_fred_series returned (line 170)                                   *)

\* Bound of the call: values in the list.
MaxValues == 14

\* The lists of the model: n values 100, at most one of them replaced by
\* 110 or by 0.
ValueLists(n) ==
    {[i \in 1..n |-> Num(100)]}
    \cup {[i \in 1..n |-> IF i = p THEN v ELSE Num(100)] : p \in 1..n, v \in {Num(110), Num(0)}}

\* values[-k] raises IndexError when the list has fewer than k elements.
index_raises(vs, k) == k > Len(vs)

\* values[-k]
from_end(vs, k) == vs[Len(vs) + 1 - k]

\* lines 123-126: the index of line 126 is evaluated when the list has 12
\* values or more.
calculate_yoy_change_raises(vs) == ~(Len(vs) < 12) /\ index_raises(vs, 13)

\* lines 123-132
calculate_yoy_change(vs) ==
    IF Len(vs) < 12 THEN Num(0)
    ELSE LET current_value == from_end(vs, 1)
             prior_year_value == from_end(vs, 13)
         IN  IF prior_year_value = Num(0) THEN Num(0)
             ELSE FMul(FSub(FDiv(current_value, prior_year_value), Num(1)), Num(100))

ChangeInputs ==
    /\ raw_values \in UNION {ValueLists(n) : n \in 0..MaxValues}
    /\ yoy_change = NaN
    /\ ypc = "call"

\* line 170: calculate_yoy_change(raw_values)
CalculateYoYChange ==
    /\ ypc = "call"
    /\ IF calculate_yoy_change_raises(raw_values)
       THEN /\ ypc' = "raised"
            /\ UNCHANGED yoy_change
       ELSE /\ yoy_change' = calculate_yoy_change(raw_values)
            /\ ypc' = "returned"
    /\ UNCHANGED raw_values
    /\ UNCHANGED nonChangeVars

ChangeNext == CalculateYoYChange

ChangeInit ==
    ChangeInputs /\ MergeIdle /\ NormIdle /\ TransIdle /\ SpreadIdle /\ ResolveIdle /\ RunIdle /\ StoreIdle /\ FetchIdle /\ RaceIdle

SpecChange == ChangeInit /\ [][ChangeNext]_vars

----------------------------------------------------------------------------
(* calculate_yoy_change: properties                                        *)

\* C30: the call returns for a list of any length: 0 when the list has no
\* value 12 positions before its last one or when that value is 0, else
\* the percent change of the last value over that value.
C30_YoYChangeTotal ==
    ypc # "call" =>
        /\ ypc = "returned"
        /\ yoy_change =
              (IF Len(raw_values) < 13 THEN <<0, 1>>
               ELSE IF raw_values[Len(raw_values) - 12] = <<0, 1>> THEN <<0, 1>>
               ELSE PercentChange(raw_values[Len(raw_values)], raw_values[Len(raw_values) - 12]))

====
